---- MODULE Spec2Model ----
(***************************************************************************)
(* Model of the MPI fire-extinguishing simulation (main, sections 3 to 5   *)
(* of the simulator) run by `size` processes, each owning `chunk` rows of  *)
(* the surface plus two halo rows.                                         *)
(*                                                                         *)
(* Temperatures are C floats; here they are fixed-point integers counted   *)
(* in units of 1/Scale degree, and a float division or product truncates   *)
(* to that resolution.  Distances are compared through their squares       *)
(* (sqrtf is strictly monotone on the small integers that occur).          *)
(*                                                                         *)
(* MPI is modelled with eager point-to-point channels, one FIFO queue per  *)
(* (source, destination, tag), and with blocking collectives: a process    *)
(* leaves MPI_Allreduce / MPI_Barrier only when every process has entered  *)
(* the same collective.  Spec and CaseSpec start at the simulation loop    *)
(* with the local buffers allocated; FaultSpec starts before the           *)
(* allocation, which may fail, and with any number of processes, whether   *)
(* or not it divides the number of rows; ReportSpec is Spec followed by    *)
(* the results section that every process runs after MPI_Finalize.         *)
(*                                                                         *)
(* The Laplace programs, the sequential one and the two MPI ones, are      *)
(* modelled at the end of the module, with variables of their own          *)
(* (LaplaceSpec).                                                          *)
(***************************************************************************)
EXTENDS Integers, Sequences, FiniteSets, TLC

(* ---- bounds of the model ---- *)
MaxRows == 4
MaxSize == 4
MaxIter == 2
Columns == 3
Scale == 100
MaxCaseSize == 3

(* ---- program constants ---- *)
RADIUS_TYPE_1 == 3
RADIUS_TYPE_2_3 == 9
NumSteps == 10
TagUp == 100
TagDown == 101
THRESHOLD == Scale \div 10

VARIABLES
    rows, columns, max_iter, size,      \* the input and the cohort size
    pc,                                 \* position of each process in main
    iter, step, flag_stability, first_activation,
    local_num_deactivated, num_deactivated,
    local_residual, global_residual,
    focal, teams,                       \* replicated arrays, one copy per process
    surface, surfaceCopy,               \* local slices, flattened, halos included
    chan,                               \* point-to-point messages in flight
    coll, cbuf,                         \* allreduce: calls entered, contributions
    gathered, fullSurface, surfacePtr,  \* gather buffers, the pointer `surface`
    ref,                                \* the reference run on the undivided grid
    stderr,                             \* what each process has written to stderr
    stdout,                             \* the values of the "Result:" line of each process
    \* ---- the Laplace programs ----
    variant,                            \* "sendrecv": unnamed/part_000, "blocking": laplace.c (MPI),
                                        \* "sequential": laplace.c (first program)
    N, M, iter_max, nprocs,             \* argv[1], argv[2], argv[3], the size of MPI_COMM_WORLD
    eager, junk,                        \* MPI_Send buffers the row; the value of unassigned memory
    alias_ok,                           \* MPI_Allreduce accepts one address as both of its buffers
    lpc, liter, error,                  \* per rank: position in main, iter, error
    A, Anew,                            \* per rank: the two matrices, flattened
    assigned,                           \* per rank: the cells of A and of Anew assigned so far
    mail,                               \* rows in flight, per (source, destination)
    lcoll, lcbuf                        \* MPI_Allreduce: calls entered, contributions

vars == <<rows, columns, max_iter, size, pc, iter, step, flag_stability,
          first_activation, local_num_deactivated, num_deactivated,
          local_residual, global_residual, focal, teams, surface, surfaceCopy,
          chan, coll, cbuf, gathered, fullSurface, surfacePtr, ref, stderr, stdout,
          variant, N, M, iter_max, nprocs, eager, junk, alias_ok, lpc, liter, error,
          A, Anew, assigned, mail, lcoll, lcbuf>>

(* the variables of the Laplace programs, and those of the fire simulation *)
laplace == <<variant, N, M, iter_max, nprocs, eager, junk, alias_ok, lpc, liter, error,
             A, Anew, assigned, mail, lcoll, lcbuf>>

fire == <<rows, columns, max_iter, size, pc, iter, step, flag_stability,
          first_activation, local_num_deactivated, num_deactivated,
          local_residual, global_residual, focal, teams, surface, surfaceCopy,
          chan, coll, cbuf, gathered, fullSurface, surfacePtr, ref, stderr, stdout>>

(* ---- helpers ---- *)
Ranks == 0 .. (size - 1)

Abs(a) == IF a < 0 THEN -a ELSE a

SetMax(S) == CHOOSE m \in S : \A e \in S : e <= m

RECURSIVE SetSum(_, _)
SetSum(f, S) == IF S = {} THEN 0
                ELSE LET e == CHOOSE e \in S : TRUE
                     IN f[e] + SetSum(f, S \ {e})

ZeroBased(seq) == [i \in 0 .. (Len(seq) - 1) |-> seq[i + 1]]

num_focal(f) == Cardinality(DOMAIN f)

num_teams(t) == Cardinality(DOMAIN t)

(* ---- partition ---- *)
chunk == rows \div size

local_nrows == chunk + 2

g_start(w) == w * chunk

g_endOverlap(w) == g_start(w) + chunk

g_end(w) == g_start(w) + chunk - 1

accessMat(arr, exp1, exp2) == arr[exp1 * columns + exp2]

Idx(exp1, exp2) == exp1 * columns + exp2

LocalCells == 0 .. (local_nrows * columns - 1)

RowOf(arr, i) == [j \in 1 .. columns |-> accessMat(arr, i, j - 1)]

(* ---- 4.1 focal point activation ---- *)
ActivateFocalFrom(f, it) ==
    [i \in DOMAIN f |-> IF f[i].start <= it THEN [f[i] EXCEPT !.active = 1] ELSE f[i]]

ActivateFocalEarly(f, it) ==
    [i \in DOMAIN f |-> IF f[i].start = it + 1 THEN [f[i] EXCEPT !.active = 1] ELSE f[i]]

ActivateFocal(f, it) ==
    [i \in DOMAIN f |-> IF f[i].start = it THEN [f[i] EXCEPT !.active = 1] ELSE f[i]]

CountDeactivated(f) == Cardinality({i \in DOMAIN f : f[i].active = 2})

(* ---- 4.2.1 heat of the active focal points ---- *)
HeatWritesUnowned(f, w) ==
    {i \in DOMAIN f :
        /\ f[i].active = 1
        /\ ~(f[i].x < 0 \/ f[i].x > rows - 1 \/ f[i].y < 0 \/ f[i].y > columns - 1)}

HeatWrites(f, w) ==
    {i \in DOMAIN f :
        /\ f[i].active = 1
        /\ ~(f[i].x < 0 \/ f[i].x > rows - 1 \/ f[i].y < 0 \/ f[i].y > columns - 1)
        /\ f[i].x >= g_start(w) /\ f[i].x <= g_end(w)}

HeatIndexNoHalo(f, w, i) == Idx(f[i].x - g_start(w), f[i].y)

HeatIndex(f, w, i) == Idx((f[i].x - g_start(w)) + 1, f[i].y)

UpdateHeat(s, f, w) ==
    [c \in DOMAIN s |->
        LET hits == {i \in HeatWrites(f, w) : HeatIndex(f, w, i) = c}
        IN IF hits = {} THEN s[c] ELSE f[SetMax(hits)].heat * Scale]

(* ---- 4.2.3 stencil, 4.2.4 residual ---- *)
StencilCellsNoSkip(w) == (1 .. chunk) \X (1 .. (columns - 2))

StencilCellsAllColumns(w) ==
    {<<i, j>> \in (1 .. chunk) \X (0 .. (columns - 1)) :
        ~(g_start(w) + (i - 1) < 1 \/ g_start(w) + (i - 1) > rows - 2)}

StencilCells(w) ==
    {<<i, j>> \in (1 .. chunk) \X (1 .. (columns - 2)) :
        ~(g_start(w) + (i - 1) < 1 \/ g_start(w) + (i - 1) > rows - 2)}

UpdateSurface(s, sc, w) ==
    [c \in DOMAIN s |->
        IF \E p \in StencilCells(w) : Idx(p[1], p[2]) = c
        THEN LET p == CHOOSE p \in StencilCells(w) : Idx(p[1], p[2]) = c
                 i == p[1]
                 j == p[2]
             IN (accessMat(sc, i - 1, j) + accessMat(sc, i + 1, j)
                 + accessMat(sc, i, j - 1) + accessMat(sc, i, j + 1)) \div 4
        ELSE s[c]]

LocalResidual(s, sc, w) ==
    LET diffs == {Abs(accessMat(s, p[1], p[2]) - accessMat(sc, p[1], p[2])) :
                    p \in StencilCells(w)}
    IN IF diffs = {} THEN 0 ELSE SetMax(diffs)

(* ---- 4.3 team movement ---- *)
Dist2(ax, ay, bx, by) == (ax - bx) * (ax - bx) + (ay - by) * (ay - by)

RECURSIVE NearestLast(_, _, _, _, _)
NearestLast(f, tm, j, target, best) ==
    IF j >= num_focal(f) THEN target
    ELSE IF f[j].active # 1 THEN NearestLast(f, tm, j + 1, target, best)
    ELSE LET d == Dist2(f[j].x, f[j].y, tm.x, tm.y)
         IN IF target = -1 \/ d <= best
            THEN NearestLast(f, tm, j + 1, j, d)
            ELSE NearestLast(f, tm, j + 1, target, best)

RECURSIVE Nearest(_, _, _, _, _)
Nearest(f, tm, j, target, best) ==
    IF j >= num_focal(f) THEN target
    ELSE IF f[j].active # 1 THEN Nearest(f, tm, j + 1, target, best)
    ELSE LET d == Dist2(f[j].x, f[j].y, tm.x, tm.y)
         IN IF target = -1 \/ d < best
            THEN Nearest(f, tm, j + 1, j, d)
            ELSE Nearest(f, tm, j + 1, target, best)

MoveType1Axis(tm, fp) ==
    IF fp.x < tm.x THEN [tm EXCEPT !.x = tm.x - 1]
    ELSE IF fp.x > tm.x THEN [tm EXCEPT !.x = tm.x + 1]
    ELSE IF fp.y < tm.y THEN [tm EXCEPT !.y = tm.y - 1]
    ELSE IF fp.y > tm.y THEN [tm EXCEPT !.y = tm.y + 1]
    ELSE tm

MoveType1(tm, fp) ==
    LET x1 == IF fp.x < tm.x THEN tm.x - 1 ELSE tm.x
        x2 == IF fp.x > x1 THEN x1 + 1 ELSE x1
        y1 == IF fp.y < tm.y THEN tm.y - 1 ELSE tm.y
        y2 == IF fp.y > y1 THEN y1 + 1 ELSE y1
    IN [tm EXCEPT !.x = x2, !.y = y2]

MoveType2XFirst(tm, fp) ==
    IF fp.x < tm.x THEN [tm EXCEPT !.x = tm.x - 1]
    ELSE IF fp.x > tm.x THEN [tm EXCEPT !.x = tm.x + 1]
    ELSE IF fp.y < tm.y THEN [tm EXCEPT !.y = tm.y - 1]
    ELSE IF fp.y > tm.y THEN [tm EXCEPT !.y = tm.y + 1]
    ELSE tm

MoveType2(tm, fp) ==
    IF fp.y < tm.y THEN [tm EXCEPT !.y = tm.y - 1]
    ELSE IF fp.y > tm.y THEN [tm EXCEPT !.y = tm.y + 1]
    ELSE IF fp.x < tm.x THEN [tm EXCEPT !.x = tm.x - 1]
    ELSE IF fp.x > tm.x THEN [tm EXCEPT !.x = tm.x + 1]
    ELSE tm

MoveType3(tm, fp) ==
    IF fp.x < tm.x THEN [tm EXCEPT !.x = tm.x - 1]
    ELSE IF fp.x > tm.x THEN [tm EXCEPT !.x = tm.x + 1]
    ELSE IF fp.y < tm.y THEN [tm EXCEPT !.y = tm.y - 1]
    ELSE IF fp.y > tm.y THEN [tm EXCEPT !.y = tm.y + 1]
    ELSE tm

MoveTeam(tm, f) ==
    LET target == Nearest(f, tm, 0, -1, 0)
        aimed == [tm EXCEPT !.target = target]
    IN IF target = -1 THEN aimed
       ELSE IF tm.type = 1 THEN MoveType1(aimed, f[target])
       ELSE IF tm.type = 2 THEN MoveType2(aimed, f[target])
       ELSE MoveType3(aimed, f[target])

MoveTeams(t, f) == [k \in DOMAIN t |-> MoveTeam(t[k], f)]

(* ---- 4.4 team actions ---- *)
ReachedRow(tm, f) ==
    /\ tm.target # -1
    /\ f[tm.target].x = tm.x
    /\ f[tm.target].active = 1

Reached(tm, f) ==
    /\ tm.target # -1
    /\ f[tm.target].x = tm.x /\ f[tm.target].y = tm.y
    /\ f[tm.target].active = 1

RECURSIVE DeactivateFocal(_, _, _)
DeactivateFocal(f, t, k) ==
    IF k >= num_teams(t) THEN f
    ELSE DeactivateFocal(
            IF Reached(t[k], f) THEN [f EXCEPT ![t[k].target].active = 2] ELSE f,
            t, k + 1)

Radius(tm) == IF tm.type = 1 THEN RADIUS_TYPE_1 ELSE RADIUS_TYPE_2_3

InfluenceSquare(tm) ==
    {<<i, j>> \in ((tm.x - Radius(tm)) .. (tm.x + Radius(tm)))
                  \X ((tm.y - Radius(tm)) .. (tm.y + Radius(tm))) :
        ~(i < 1 \/ i >= rows - 1 \/ j < 1 \/ j >= columns - 1)}

InfluenceArea(tm) ==
    {<<i, j>> \in ((tm.x - Radius(tm)) .. (tm.x + Radius(tm)))
                  \X ((tm.y - Radius(tm)) .. (tm.y + Radius(tm))) :
        /\ ~(i < 1 \/ i >= rows - 1 \/ j < 1 \/ j >= columns - 1)
        /\ Dist2(tm.x, tm.y, i, j) <= Radius(tm) * Radius(tm)}

ReduceWritesAll(tm, w) == InfluenceArea(tm)

ReduceWrites(tm, w) ==
    {p \in InfluenceArea(tm) : p[1] >= g_start(w) /\ p[1] <= g_end(w)}

ReduceIndex(w, p) == Idx((p[1] - g_start(w)) + 1, p[2])

ReduceHeat(s, tm, w) ==
    [c \in DOMAIN s |->
        IF \E p \in ReduceWrites(tm, w) : ReduceIndex(w, p) = c
        THEN (s[c] * 3) \div 4
        ELSE s[c]]

RECURSIVE TeamActions(_, _, _, _)
TeamActions(s, t, k, w) ==
    IF k >= num_teams(t) THEN s
    ELSE TeamActions(ReduceHeat(s, t[k], w), t, k + 1, w)

RECURSIVE DeactivateOwned(_, _, _, _)
DeactivateOwned(f, t, k, w) ==
    IF k >= num_teams(t) THEN f
    ELSE DeactivateOwned(
            IF Reached(t[k], f) /\ t[k].x >= g_start(w) /\ t[k].x <= g_end(w)
            THEN [f EXCEPT ![t[k].target].active = 2] ELSE f,
            t, k + 1, w)

TeamDeactivationOwned(w) == DeactivateOwned(focal[w], MoveTeams(teams[w], focal[w]), 0, w)

(* the focal array of process w after its team actions of this iteration *)
TeamDeactivation(w) == DeactivateFocal(focal[w], MoveTeams(teams[w], focal[w]), 0)

StableCountOnly(nd, f, res) == nd = num_focal(f)

Stable(nd, f, res) == nd = num_focal(f) /\ res < THRESHOLD

(* ---- MPI ---- *)
(* A message carries the row sent and, as a history stamp that no process   *)
(* reads, the sub-step <<iter, step>> in which its sender sent it.           *)
Send(ch, src, dst, tag, row, stamp) ==
    [ch EXCEPT ![<<src, dst, tag>>] = Append(@, [row |-> row, stamp |-> stamp])]

CanRecv(ch, src, dst, tag) == ch[<<src, dst, tag>>] # <<>>

RecvRow(s, ch, src, dst, tag, i) ==
    [c \in DOMAIN s |->
        IF c \div columns = i
        THEN Head(ch[<<src, dst, tag>>]).row[(c % columns) + 1]
        ELSE s[c]]

(* the rows the two MPI_Sendrecv calls send, and the tags they receive with *)
TopSendRowHalo(s) == RowOf(s, 0)

TopSendRow(s) == RowOf(s, 1)

BottomSendRowHalo(s) == RowOf(s, chunk + 1)

BottomSendRow(s) == RowOf(s, chunk)

TopRecvTag == TagDown

BottomRecvTagSame == TagDown

BottomRecvTag == TagUp

SlotOfRank(w) == w % 2

Slot(w) == (coll[w] - 1) % 2

AllEnteredRootOnly(w) == w # 0 \/ \A v \in Ranks : coll[v] >= coll[w]

AllEntered(w) == \A v \in Ranks : coll[v] >= coll[w]

ReduceSum(buf) == SetSum(buf, Ranks)

ReduceMaxRoot(buf) == buf[0]

ReduceMax(buf) == SetMax({buf[v] : v \in Ranks})

GatherBlockFromHalo(s) == [k \in 1 .. (chunk * columns) |-> s[Idx(0, 0) + (k - 1)]]

GatherBlock(s) == [k \in 1 .. (chunk * columns) |-> s[Idx(1, 0) + (k - 1)]]

RECURSIVE Concat(_, _)
Concat(g, r) == IF r >= size THEN <<>> ELSE g[r][1] \o Concat(g, r + 1)

Assemble(g) == ZeroBased(Concat(g, 0))

(* ---- the reference: the same algorithm on one undivided R x C grid,    ---- *)
(* ---- with no halo rows and no communication (design sections 4.3-4.6) ---- *)
RefInterior(R, C) == (1 .. (R - 2)) \X (1 .. (C - 2))

RefActivate(f, it) ==
    [i \in DOMAIN f |->
        IF f[i].active = 0 /\ f[i].start = it THEN [f[i] EXCEPT !.active = 1] ELSE f[i]]

RECURSIVE RefReassert(_, _, _, _, _)
RefReassert(g, f, R, C, i) ==
    IF i >= Cardinality(DOMAIN f) THEN g
    ELSE IF f[i].active = 1 /\ f[i].x \in 0 .. (R - 1) /\ f[i].y \in 0 .. (C - 1)
         THEN RefReassert([g EXCEPT ![f[i].x * C + f[i].y] = f[i].heat * Scale], f, R, C, i + 1)
         ELSE RefReassert(g, f, R, C, i + 1)

RefStencil(g, R, C) ==
    [c \in DOMAIN g |->
        IF <<c \div C, c % C>> \in RefInterior(R, C)
        THEN (g[c - C] + g[c + C] + g[c - 1] + g[c + 1]) \div 4
        ELSE g[c]]

RefResidual(new, old, R, C) ==
    LET diffs == {Abs(new[p[1] * C + p[2]] - old[p[1] * C + p[2]]) : p \in RefInterior(R, C)}
    IN IF diffs = {} THEN 0 ELSE SetMax(diffs)

RECURSIVE RefSubSteps(_, _, _, _, _)
RefSubSteps(st, f, R, C, n) ==
    IF n = 0 THEN st
    ELSE LET old == RefReassert(st.grid, f, R, C, 0)
             new == RefStencil(old, R, C)
             nxt == [grid |-> new, residual |-> RefResidual(new, old, R, C)]
         IN \* a sub-step that leaves the grid as it was repeats itself
            IF new = st.grid THEN nxt ELSE RefSubSteps(nxt, f, R, C, n - 1)

RefTarget(tm, f) ==
    LET act == {i \in DOMAIN f : f[i].active = 1}
        d(i) == Dist2(f[i].x, f[i].y, tm.x, tm.y)
    IN IF act = {} THEN -1
       ELSE CHOOSE i \in act : \A k \in act : d(i) < d(k) \/ (d(i) = d(k) /\ i <= k)

Sign(a) == IF a > 0 THEN 1 ELSE IF a < 0 THEN -1 ELSE 0

RefMove(tm, f) ==
    LET tg == RefTarget(tm, f)
        dx == IF tg = -1 THEN 0 ELSE Sign(f[tg].x - tm.x)
        dy == IF tg = -1 THEN 0 ELSE Sign(f[tg].y - tm.y)
    IN IF tm.type = 1 THEN [tm EXCEPT !.target = tg, !.x = @ + dx, !.y = @ + dy]
       ELSE IF tm.type = 2
            THEN [tm EXCEPT !.target = tg, !.y = @ + dy, !.x = IF dy = 0 THEN @ + dx ELSE @]
            ELSE [tm EXCEPT !.target = tg, !.x = @ + dx, !.y = IF dx = 0 THEN @ + dy ELSE @]

RefDeactivate(f, t) ==
    [i \in DOMAIN f |->
        IF f[i].active = 1
           /\ \E k \in DOMAIN t : t[k].target = i /\ t[k].x = f[i].x /\ t[k].y = f[i].y
        THEN [f[i] EXCEPT !.active = 2]
        ELSE f[i]]

RECURSIVE Cool(_, _)
Cool(v, n) == IF n = 0 THEN v ELSE Cool((v * 3) \div 4, n - 1)

RefSuppress(g, t, R, C) ==
    [c \in DOMAIN g |->
        LET i == c \div C
            j == c % C
            covering == {k \in DOMAIN t :
                            Dist2(t[k].x, t[k].y, i, j) <= Radius(t[k]) * Radius(t[k])}
        IN IF <<i, j>> \in RefInterior(R, C) THEN Cool(g[c], Cardinality(covering)) ELSE g[c]]

RefIteration(r, R, C) ==
    LET f1 == RefActivate(r.focal, r.iter)
        nd == Cardinality({i \in DOMAIN f1 : f1[i].active = 2})
        sub == RefSubSteps([grid |-> r.grid, residual |-> 0], f1, R, C, NumSteps)
        t1 == [k \in DOMAIN r.teams |-> RefMove(r.teams[k], f1)]
    IN [iter |-> r.iter + 1,
        flag |-> nd = Cardinality(DOMAIN f1) /\ sub.residual < THRESHOLD,
        focal |-> RefDeactivate(f1, t1),
        teams |-> t1,
        grid |-> RefSuppress(sub.grid, t1, R, C)]

RECURSIVE RefTrace(_, _, _, _)
RefTrace(r, R, C, mi) ==
    <<r>> \o (IF r.iter < mi /\ ~r.flag THEN RefTrace(RefIteration(r, R, C), R, C, mi)
              ELSE <<>>)

(* ref[k + 1] is the reference state after k outer iterations *)
RefRun(R, C, mi, t, f) ==
    RefTrace([iter |-> 0, flag |-> FALSE, focal |-> f, teams |-> t,
              grid |-> [c \in 0 .. (R * C - 1) |-> 0]], R, C, mi)

(* ---- inputs ---- *)
Team(x, y, type) == [x |-> x, y |-> y, type |-> type, target |-> -1]

Focal(x, y, start, heat) == [x |-> x, y |-> y, start |-> start, heat |-> heat, active |-> 0]

Scenarios ==
    { [t |-> <<>>, f |-> <<>>],
      [t |-> <<Team(0, 0, 1)>>, f |-> <<Focal(1, 1, 0, 2)>>],
      [t |-> <<Team(2, 1, 2)>>, f |-> <<Focal(2, 1, 0, 1000000)>>],
      [t |-> <<Team(3, 2, 3)>>, f |-> <<Focal(1, 1, 0, 3), Focal(2, 1, 1, 5)>>],
      [t |-> <<Team(1, 0, 2), Team(2, 2, 1)>>, f |-> <<Focal(0, 1, 0, 4), Focal(3, 1, 0, 1)>>] }

Configs ==
    {c \in ((MaxRows - 1) .. MaxRows) \X (1 .. MaxSize) : c[1] % c[2] = 0}

(* no Laplace program runs beside the fire simulation *)
NoLaplace ==
    /\ variant = "none" /\ N = 0 /\ M = 0 /\ iter_max = 0 /\ nprocs = 0
    /\ eager = TRUE /\ junk = 0 /\ alias_ok = TRUE
    /\ lpc = <<>> /\ liter = <<>> /\ error = <<>> /\ A = <<>> /\ Anew = <<>>
    /\ assigned = <<>>
    /\ mail = <<>> /\ lcoll = <<>> /\ lcbuf = <<>>

(* the state of the cohort with every process at position p of main *)
StartAt(p, R, C, n, mi, t, f) ==
    /\ ref = RefRun(R, C, mi, ZeroBased(t), ZeroBased(f))
    /\ rows = R
    /\ columns = C
    /\ size = n
    /\ max_iter = mi
    /\ pc = [w \in 0 .. (n - 1) |-> p]
    /\ iter = [w \in 0 .. (n - 1) |-> 0]
    /\ step = [w \in 0 .. (n - 1) |-> 0]
    /\ flag_stability = [w \in 0 .. (n - 1) |-> FALSE]
    /\ first_activation = [w \in 0 .. (n - 1) |-> FALSE]
    /\ local_num_deactivated = [w \in 0 .. (n - 1) |-> 0]
    /\ num_deactivated = [w \in 0 .. (n - 1) |-> 0]
    /\ local_residual = [w \in 0 .. (n - 1) |-> 0]
    /\ global_residual = [w \in 0 .. (n - 1) |-> 0]
    /\ focal = [w \in 0 .. (n - 1) |-> ZeroBased(f)]
    /\ teams = [w \in 0 .. (n - 1) |-> ZeroBased(t)]
    /\ surface = [w \in 0 .. (n - 1) |-> [k \in 0 .. (((R \div n) + 2) * C - 1) |-> 0]]
    /\ surfaceCopy = [w \in 0 .. (n - 1) |-> [k \in 0 .. (((R \div n) + 2) * C - 1) |-> 0]]
    /\ chan = [k \in (0 .. (n - 1)) \X (0 .. (n - 1)) \X {TagUp, TagDown} |-> <<>>]
    /\ coll = [w \in 0 .. (n - 1) |-> 0]
    /\ cbuf = [s \in 0 .. 1 |-> [w \in 0 .. (n - 1) |-> 0]]
    /\ gathered = [w \in 0 .. (n - 1) |-> <<>>]
    /\ fullSurface = <<>>
    /\ surfacePtr = [w \in 0 .. (n - 1) |-> "local"]
    /\ stderr = [w \in 0 .. (n - 1) |-> <<>>]
    /\ stdout = [w \in 0 .. (n - 1) |-> <<>>]
    /\ NoLaplace

(* the state of the cohort when the simulation loop is reached, the local  *)
(* buffers allocated and zeroed                                            *)
Start(R, C, n, mi, t, f) == StartAt("loop", R, C, n, mi, t, f)

Init ==
    \E c \in Configs, sc \in Scenarios, mi \in 0 .. MaxIter :
        Start(c[1], Columns, c[2], mi, sc.t, sc.f)

(* ---- further inputs: larger surfaces run by one or two processes ---- *)
TeamsAround(x, y, type) ==
    <<Team(x - 2, y - 2, type), Team(x - 2, y, type), Team(x - 2, y + 2, type),
      Team(x, y - 2, type), Team(x, y + 2, type),
      Team(x + 2, y - 2, type), Team(x + 2, y, type), Team(x + 2, y + 2, type)>>

Cases ==
    { \* one type 1 team two diagonal cells away from one focal point
      [rows |-> 5, columns |-> 5, max_iter |-> 50,
       t |-> <<Team(0, 0, 1)>>,
       f |-> <<Focal(2, 2, 0, 100)>>],
      \* teams of every type in every direction from one focal point
      [rows |-> 6, columns |-> 4, max_iter |-> 2,
       t |-> TeamsAround(3, 1, 1) \o TeamsAround(3, 1, 2) \o TeamsAround(3, 1, 3),
       f |-> <<Focal(3, 1, 0, 1000000)>>],
      \* a surface longer than both radii, teams near its ends
      [rows |-> 12, columns |-> 4, max_iter |-> 2,
       t |-> <<Team(0, 0, 1), Team(16, 2, 2), Team(-6, 1, 3)>>,
       f |-> <<Focal(5, 1, 0, 1000000), Focal(6, 2, 0, 1000000)>>],
      \* equidistant focal points, two focal points on one cell, a late start
      [rows |-> 6, columns |-> 4, max_iter |-> 3,
       t |-> <<Team(2, 1, 2), Team(4, 1, 1), Team(3, 0, 3), Team(3, 1, 2)>>,
       f |-> <<Focal(1, 1, 0, 1000000), Focal(3, 1, 0, 1000000),
               Focal(3, 1, 0, 1000000), Focal(2, 2, 1, 1000000)>>],
      \* small heats that settle within an iteration, room for a third iteration
      [rows |-> 4, columns |-> 3, max_iter |-> 3,
       t |-> <<Team(0, 0, 1)>>,
       f |-> <<Focal(1, 1, 0, 2)>>],
      [rows |-> 4, columns |-> 3, max_iter |-> 3,
       t |-> <<Team(1, 0, 2), Team(2, 2, 1)>>,
       f |-> <<Focal(0, 1, 0, 4), Focal(3, 1, 0, 1)>>],
      \* one team between a focal point on the border and a nearer one
      [rows |-> 4, columns |-> 3, max_iter |-> 3,
       t |-> <<Team(2, 2, 1)>>,
       f |-> <<Focal(0, 1, 0, 4), Focal(3, 1, 0, 1)>>],
      \* two teams after the same focal point, the other focal point far away
      [rows |-> 6, columns |-> 4, max_iter |-> 2,
       t |-> <<Team(1, 1, 1), Team(2, 3, 2)>>,
       f |-> <<Focal(2, 1, 0, 1000000), Focal(5, 2, 0, 1000000)>>] }

CaseInit ==
    \E cs \in Cases, n \in 1 .. MaxCaseSize :
        /\ cs.rows % n = 0
        /\ Start(cs.rows, cs.columns, n, cs.max_iter, cs.t, cs.f)

(* ---- inputs of the runs that start before the allocation ---- *)
FaultConfigs == {<<4, 1>>, <<4, 2>>, <<5, 2>>, <<5, 3>>}

FaultInit ==
    \E c \in FaultConfigs :
        StartAt("alloc", c[1], Columns, c[2], 1,
                <<Team(0, 0, 1)>>, <<Focal(3, 1, 0, 1000000)>>)

(* ---- actions, one per step of main ---- *)
input == <<rows, columns, max_iter, size, ref>>

(* 4.1: activate, count, enter MPI_Allreduce(SUM) *)
Activate(w) ==
    /\ pc[w] = "loop"
    /\ iter[w] < max_iter /\ ~flag_stability[w]
    /\ LET f == ActivateFocal(focal[w], iter[w])
       IN /\ focal' = [focal EXCEPT ![w] = f]
          /\ first_activation' = [first_activation EXCEPT ![w] =
                                    @ \/ \E i \in DOMAIN f : f[i].start = iter[w]]
          /\ local_num_deactivated' = [local_num_deactivated EXCEPT ![w] = CountDeactivated(f)]
          /\ cbuf' = [cbuf EXCEPT ![coll[w] % 2][w] = CountDeactivated(f)]
    /\ coll' = [coll EXCEPT ![w] = @ + 1]
    /\ pc' = [pc EXCEPT ![w] = "sumWait"]
    /\ UNCHANGED <<input, laplace, stderr, stdout, iter, step, flag_stability, num_deactivated, local_residual,
                   global_residual, teams, surface, surfaceCopy, chan, gathered,
                   fullSurface, surfacePtr>>

(* MPI_Allreduce(SUM) returns; the sub-step loop starts *)
ExitSum(w) ==
    /\ pc[w] = "sumWait"
    /\ AllEntered(w)
    /\ num_deactivated' = [num_deactivated EXCEPT ![w] = ReduceSum(cbuf[Slot(w)])]
    /\ global_residual' = [global_residual EXCEPT ![w] = 0]
    /\ step' = [step EXCEPT ![w] = 0]
    /\ pc' = [pc EXCEPT ![w] = "heat"]
    /\ UNCHANGED <<input, laplace, stderr, stdout, iter, flag_stability, first_activation, local_num_deactivated,
                   local_residual, focal, teams, surface, surfaceCopy, chan, coll, cbuf,
                   gathered, fullSurface, surfacePtr>>

(* 4.2.1 *)
Heat(w) ==
    /\ pc[w] = "heat"
    /\ surface' = [surface EXCEPT ![w] = UpdateHeat(surface[w], focal[w], w)]
    /\ pc' = [pc EXCEPT ![w] = "exTop"]
    /\ UNCHANGED <<input, laplace, stderr, stdout, iter, step, flag_stability, first_activation,
                   local_num_deactivated, num_deactivated, local_residual, global_residual,
                   focal, teams, surfaceCopy, chan, coll, cbuf, gathered, fullSurface,
                   surfacePtr>>

(* 4.2.1.5, first MPI_Sendrecv: the send half *)
ExchangeTop(w) ==
    /\ pc[w] = "exTop"
    /\ IF w > 0
       THEN /\ chan' = Send(chan, w, w - 1, TagUp, TopSendRow(surface[w]), <<iter[w], step[w]>>)
            /\ pc' = [pc EXCEPT ![w] = "exTopWait"]
       ELSE /\ chan' = chan
            /\ pc' = [pc EXCEPT ![w] = "exBot"]
    /\ UNCHANGED <<input, laplace, stderr, stdout, iter, step, flag_stability, first_activation,
                   local_num_deactivated, num_deactivated, local_residual, global_residual,
                   focal, teams, surface, surfaceCopy, coll, cbuf, gathered, fullSurface,
                   surfacePtr>>

(* first MPI_Sendrecv: the receive half, into the top halo row *)
ExchangeTopRecv(w) ==
    /\ pc[w] = "exTopWait"
    /\ CanRecv(chan, w - 1, w, TopRecvTag)
    /\ surface' = [surface EXCEPT ![w] = RecvRow(@, chan, w - 1, w, TopRecvTag, 0)]
    /\ chan' = [chan EXCEPT ![<<w - 1, w, TopRecvTag>>] = Tail(@)]
    /\ pc' = [pc EXCEPT ![w] = "exBot"]
    /\ UNCHANGED <<input, laplace, stderr, stdout, iter, step, flag_stability, first_activation,
                   local_num_deactivated, num_deactivated, local_residual, global_residual,
                   focal, teams, surfaceCopy, coll, cbuf, gathered, fullSurface, surfacePtr>>

(* second MPI_Sendrecv: the send half *)
ExchangeBottom(w) ==
    /\ pc[w] = "exBot"
    /\ IF w < size - 1
       THEN /\ chan' = Send(chan, w, w + 1, TagDown, BottomSendRow(surface[w]), <<iter[w], step[w]>>)
            /\ pc' = [pc EXCEPT ![w] = "exBotWait"]
       ELSE /\ chan' = chan
            /\ pc' = [pc EXCEPT ![w] = "copy"]
    /\ UNCHANGED <<input, laplace, stderr, stdout, iter, step, flag_stability, first_activation,
                   local_num_deactivated, num_deactivated, local_residual, global_residual,
                   focal, teams, surface, surfaceCopy, coll, cbuf, gathered, fullSurface,
                   surfacePtr>>

(* second MPI_Sendrecv: the receive half, into the bottom halo row *)
ExchangeBottomRecv(w) ==
    /\ pc[w] = "exBotWait"
    /\ CanRecv(chan, w + 1, w, BottomRecvTag)
    /\ surface' = [surface EXCEPT ![w] = RecvRow(@, chan, w + 1, w, BottomRecvTag, chunk + 1)]
    /\ chan' = [chan EXCEPT ![<<w + 1, w, BottomRecvTag>>] = Tail(@)]
    /\ pc' = [pc EXCEPT ![w] = "copy"]
    /\ UNCHANGED <<input, laplace, stderr, stdout, iter, step, flag_stability, first_activation,
                   local_num_deactivated, num_deactivated, local_residual, global_residual,
                   focal, teams, surfaceCopy, coll, cbuf, gathered, fullSurface, surfacePtr>>

(* 4.2.2 copy, 4.2.3 stencil, 4.2.4 residual, enter MPI_Allreduce(MAX) *)
Propagate(w) ==
    /\ pc[w] = "copy"
    /\ LET sc == surface[w]
           s == UpdateSurface(surface[w], sc, w)
           r == LocalResidual(s, sc, w)
       IN /\ surfaceCopy' = [surfaceCopy EXCEPT ![w] = sc]
          /\ surface' = [surface EXCEPT ![w] = s]
          /\ local_residual' = [local_residual EXCEPT ![w] = r]
          /\ cbuf' = [cbuf EXCEPT ![coll[w] % 2][w] = r]
    /\ coll' = [coll EXCEPT ![w] = @ + 1]
    /\ pc' = [pc EXCEPT ![w] = "maxWait"]
    /\ UNCHANGED <<input, laplace, stderr, stdout, iter, step, flag_stability, first_activation,
                   local_num_deactivated, num_deactivated, global_residual, focal, teams,
                   chan, gathered, fullSurface, surfacePtr>>

(* MPI_Allreduce(MAX) returns; next sub-step, or the end of the sub-step loop *)
ExitMax(w) ==
    /\ pc[w] = "maxWait"
    /\ AllEntered(w)
    /\ global_residual' = [global_residual EXCEPT ![w] = ReduceMax(cbuf[Slot(w)])]
    /\ step' = [step EXCEPT ![w] = @ + 1]
    /\ pc' = [pc EXCEPT ![w] = IF step[w] + 1 < NumSteps THEN "heat" ELSE "teams"]
    /\ UNCHANGED <<input, laplace, stderr, stdout, iter, flag_stability, first_activation, local_num_deactivated,
                   num_deactivated, local_residual, focal, teams, surface, surfaceCopy,
                   chan, coll, cbuf, gathered, fullSurface, surfacePtr, ref>>

(* stability test, 4.3 team movement, 4.4 team actions, iter++ *)
NextIterUnlessStable(it, stable) == IF stable THEN it ELSE it + 1

(* the counter after the iteration: iter++ runs on every pass of the loop *)
NextIter(it, stable) == it + 1

TeamStage(w) ==
    /\ pc[w] = "teams"
    /\ flag_stability' = [flag_stability EXCEPT ![w] =
            @ \/ Stable(num_deactivated[w], focal[w], global_residual[w])]
    /\ LET t == MoveTeams(teams[w], focal[w])
       IN /\ teams' = [teams EXCEPT ![w] = t]
          /\ focal' = [focal EXCEPT ![w] = TeamDeactivation(w)]
          /\ surface' = [surface EXCEPT ![w] = TeamActions(surface[w], t, 0, w)]
    /\ iter' = [iter EXCEPT ![w] = NextIter(@, flag_stability'[w])]
    /\ pc' = [pc EXCEPT ![w] = "loop"]
    /\ UNCHANGED <<input, laplace, stderr, stdout, step, first_activation, local_num_deactivated, num_deactivated,
                   local_residual, global_residual, surfaceCopy, chan, coll, cbuf,
                   gathered, fullSurface, surfacePtr>>

(* the loop ends; MPI_Gather is entered *)
Gather(w) ==
    /\ pc[w] = "loop"
    /\ ~(iter[w] < max_iter /\ ~flag_stability[w])
    /\ gathered' = [gathered EXCEPT ![w] = <<GatherBlock(surface[w])>>]
    /\ pc' = [pc EXCEPT ![w] = IF w = 0 THEN "gatherWait" ELSE "free"]
    /\ UNCHANGED <<input, laplace, stderr, stdout, iter, step, flag_stability, first_activation,
                   local_num_deactivated, num_deactivated, local_residual, global_residual,
                   focal, teams, surface, surfaceCopy, chan, coll, cbuf, fullSurface,
                   surfacePtr>>

(* MPI_Gather returns on the root *)
ExitGather(w) ==
    /\ pc[w] = "gatherWait"
    /\ \A v \in Ranks : gathered[v] # <<>>
    /\ fullSurface' = Assemble(gathered)
    /\ pc' = [pc EXCEPT ![w] = "free"]
    /\ UNCHANGED <<input, laplace, stderr, stdout, iter, step, flag_stability, first_activation,
                   local_num_deactivated, num_deactivated, local_residual, global_residual,
                   focal, teams, surface, surfaceCopy, chan, coll, cbuf, gathered,
                   surfacePtr>>

(* the local buffers are freed; MPI_Barrier is entered *)
Free(w) ==
    /\ pc[w] = "free"
    /\ surfacePtr' = [surfacePtr EXCEPT ![w] = IF w = 0 THEN "full" ELSE "null"]
    /\ pc' = [pc EXCEPT ![w] = "barrier"]
    /\ UNCHANGED <<input, laplace, stderr, stdout, iter, step, flag_stability, first_activation,
                   local_num_deactivated, num_deactivated, local_residual, global_residual,
                   focal, teams, surface, surfaceCopy, chan, coll, cbuf, gathered,
                   fullSurface>>

(* MPI_Barrier returns; MPI_Finalize *)
Finalize(w) ==
    /\ pc[w] = "barrier"
    /\ \A v \in Ranks : pc[v] \in {"barrier", "done"}
    /\ pc' = [pc EXCEPT ![w] = "done"]
    /\ UNCHANGED <<input, laplace, stderr, stdout, iter, step, flag_stability, first_activation,
                   local_num_deactivated, num_deactivated, local_residual, global_residual,
                   focal, teams, surface, surfaceCopy, chan, coll, cbuf, gathered,
                   fullSurface, surfacePtr>>

(* 3: the two malloc calls, the message on failure, the zeroing loop.  With *)
(* a null buffer the zeroing loop writes through a null pointer: the        *)
(* process is killed, or it runs on.                                        *)
Allocate(w) ==
    /\ pc[w] = "alloc"
    /\ \E got \in BOOLEAN :
        IF got
        THEN /\ pc' = [pc EXCEPT ![w] = "loop"]
             /\ UNCHANGED <<stderr, surfacePtr>>
        ELSE /\ stderr' = [stderr EXCEPT ![w] =
                            Append(@, "-- Error allocating: surface structures")]
             /\ surfacePtr' = [surfacePtr EXCEPT ![w] = "null"]
             /\ \E outcome \in {"crashed", "loop"} : pc' = [pc EXCEPT ![w] = outcome]
    /\ UNCHANGED <<input, laplace, stdout, iter, step, flag_stability, first_activation,
                   local_num_deactivated, num_deactivated, local_residual, global_residual,
                   focal, teams, surface, surfaceCopy, chan, coll, cbuf, gathered,
                   fullSurface>>

Step(w) ==
    \/ Activate(w)
    \/ ExitSum(w)
    \/ Heat(w)
    \/ ExchangeTop(w)
    \/ ExchangeTopRecv(w)
    \/ ExchangeBottom(w)
    \/ ExchangeBottomRecv(w)
    \/ Propagate(w)
    \/ ExitMax(w)
    \/ TeamStage(w)
    \/ Gather(w)
    \/ ExitGather(w)
    \/ Free(w)
    \/ Finalize(w)

Next == \E w \in Ranks : Step(w)

Spec == Init /\ [][Next]_vars

FairSpec == Spec /\ WF_vars(Next)

CaseSpec == CaseInit /\ [][Next]_vars

(* the focal points whose cell the "Result:" line reads *)
Reported(f) ==
    {i \in DOMAIN f :
        ~(f[i].x < 0 \/ f[i].x > rows - 1 \/ f[i].y < 0 \/ f[i].y > columns - 1)}

(* the values a read of accessMat(surface, x, y) can return: the cell of   *)
(* the gathered surface where `surface` points to it; where it is null,    *)
(* an arbitrary value, written -1 (no cell holds a negative temperature)   *)
ReadCell(w, x, y) ==
    IF surfacePtr[w] = "full" THEN {accessMat(fullSurface, x, y)} ELSE {-1}

RECURSIVE ResultLines(_, _, _)
ResultLines(w, f, i) ==
    IF i >= num_focal(f) THEN {<<>>}
    ELSE IF i \in Reported(f)
         THEN {<<v>> \o l : v \in ReadCell(w, f[i].x, f[i].y), l \in ResultLines(w, f, i + 1)}
         ELSE ResultLines(w, f, i + 1)

(* 6.2: "Result:", the iteration count and the cell of each focal point.   *)
(* A read through the null pointer kills the process or returns anything.  *)
Report(w) ==
    /\ pc[w] = "done"
    /\ \/ /\ \E l \in ResultLines(w, focal[w], 0) : stdout' = [stdout EXCEPT ![w] = <<iter[w]>> \o l]
          /\ pc' = [pc EXCEPT ![w] = "reported"]
       \/ /\ surfacePtr[w] = "null" /\ Reported(focal[w]) # {}
          /\ stdout' = [stdout EXCEPT ![w] = <<iter[w]>>]
          /\ pc' = [pc EXCEPT ![w] = "crashed"]
    /\ UNCHANGED <<input, laplace, stderr, iter, step, flag_stability, first_activation,
                   local_num_deactivated, num_deactivated, local_residual, global_residual,
                   focal, teams, surface, surfaceCopy, chan, coll, cbuf, gathered,
                   fullSurface, surfacePtr>>

ReportNext == \E w \in Ranks : Step(w) \/ Report(w)

ReportSpec == Init /\ [][ReportNext]_vars

FaultNext == \E w \in Ranks : Allocate(w) \/ Step(w)

FaultSpec == FaultInit /\ [][FaultNext]_vars

(* ======================= properties ======================= *)
AllDeactivated(f) == \A i \in DOMAIN f : f[i].active = 2

LastResidual == SetMax({local_residual[v] : v \in Ranks})

(* C1: in every outer iteration a process sets the stability flag if and   *)
(* only if, after the last sub-step, every focal point is Deactivated and  *)
(* the largest local residual of that sub-step is below THRESHOLD, for     *)
(* every number of processes.                                              *)
C1_StabilityIff ==
    [][\A w \in Ranks :
        (pc[w] = "teams" /\ pc'[w] = "loop") =>
            (flag_stability'[w] <=>
                (AllDeactivated(focal[w]) /\ LastResidual < THRESHOLD))]_vars

Owners(k) == {w \in Ranks : g_start(w) <= k /\ k <= g_end(w)}

(* C3: the owned ranges [g_start, g_end] of the ranks cover every global   *)
(* row of [0, rows) exactly once.                                          *)
C3_PartitionCoverage == \A k \in 0 .. (rows - 1) : Cardinality(Owners(k)) = 1

C3_Witness == size = 4 /\ rows = 4 /\ pc[3] = "maxWait"

SameAsRef(r) ==
    /\ r.iter = iter[0]
    /\ r.flag = flag_stability[0]
    /\ r.focal = focal[0]
    /\ r.teams = teams[0]

(* C4: with one process, after every outer iteration the focal points, the *)
(* teams, the stability flag and the owned rows of the grid equal those of *)
(* the reference run on the undivided grid, and the run ends with the same *)
(* iteration count and the same gathered grid.                             *)
C4_SingleWorkerEquivalence ==
    size = 1 =>
        /\ pc[0] = "loop" =>
            /\ iter[0] < Len(ref)
            /\ SameAsRef(ref[iter[0] + 1])
            /\ \A k \in 0 .. (rows - 1), j \in 0 .. (columns - 1) :
                    accessMat(ref[iter[0] + 1].grid, k, j) = accessMat(surface[0], k + 1, j)
        /\ pc[0] \in {"free", "barrier", "done"} =>
            /\ iter[0] = Len(ref) - 1
            /\ SameAsRef(ref[Len(ref)])
            /\ fullSurface = ref[Len(ref)].grid

C4_Witness ==
    /\ size = 1 /\ pc[0] = "done" /\ iter[0] = 2
    /\ \E i \in DOMAIN focal[0] : focal[0][i].active = 2
    /\ \E c \in DOMAIN fullSurface : fullSurface[c] > 0 /\ c \div columns \in 1 .. (rows - 2)

MidPcs == {"sumWait", "heat", "exTop", "exTopWait", "exBot", "exBotWait", "copy",
           "maxWait", "teams"}

SubStepPcs == {"heat", "exTop", "exTopWait", "exBot", "exBotWait", "copy", "maxWait"}

(* the sub-step, counted over the whole run from 0, a process is in *)
SubStepNo(w) == iter[w] * NumSteps + step[w]

StampNo(stamp) == stamp[1] * NumSteps + stamp[2]

(* Row i of process v as it stood in v's halo exchange of the sub-step v   *)
(* is in: v's stencil update has overwritten `surface` once v waits in the *)
(* max-reduction, and `surfaceCopy` then still holds the row exchanged.    *)
ExchangedRow(v, i) ==
    IF pc[v] = "maxWait" THEN RowOf(surfaceCopy[v], i) ELSE RowOf(surface[v], i)

(* C2 (as amended): when a process has completed the halo exchange of a    *)
(* sub-step, its top halo row equals the last owned row of rank-1 and its  *)
(* bottom halo row the first owned row of rank+1 as those rows stood in    *)
(* the neighbour's exchange of the same sub-step; a channel never holds    *)
(* more than one row, rows travel only between adjacent ranks, and the row *)
(* a waiting receive matches was sent in the receiver's own sub-step.      *)
C2_HaloFresh ==
    /\ \A w \in Ranks : pc[w] = "copy" =>
        /\ w > 0 =>
            /\ pc[w - 1] \in SubStepPcs /\ SubStepNo(w - 1) = SubStepNo(w)
            /\ RowOf(surface[w], 0) = ExchangedRow(w - 1, chunk)
        /\ w < size - 1 =>
            /\ pc[w + 1] \in SubStepPcs /\ SubStepNo(w + 1) = SubStepNo(w)
            /\ RowOf(surface[w], chunk + 1) = ExchangedRow(w + 1, 1)
    /\ \A k \in DOMAIN chan :
        /\ Len(chan[k]) <= 1
        /\ chan[k] # <<>> =>
            \/ k[3] = TagUp /\ k[2] = k[1] - 1
            \/ k[3] = TagDown /\ k[2] = k[1] + 1
    /\ \A w \in Ranks :
        /\ (pc[w] = "exTopWait" /\ CanRecv(chan, w - 1, w, TopRecvTag)) =>
                Head(chan[<<w - 1, w, TopRecvTag>>]).stamp = <<iter[w], step[w]>>
        /\ (pc[w] = "exBotWait" /\ CanRecv(chan, w + 1, w, BottomRecvTag)) =>
                Head(chan[<<w + 1, w, BottomRecvTag>>]).stamp = <<iter[w], step[w]>>

(* C2 as stated: right after its exchange a process's halo rows equal the  *)
(* neighbours' current boundary rows.                                      *)
C2_HaloCurrent ==
    \A w \in Ranks : pc[w] = "copy" =>
        /\ w > 0 => RowOf(surface[w], 0) = RowOf(surface[w - 1], chunk)
        /\ w < size - 1 => RowOf(surface[w], chunk + 1) = RowOf(surface[w + 1], 1)

C2_Witness ==
    \E w \in Ranks :
        /\ pc[w] = "copy" /\ w > 0 /\ pc[w - 1] = "maxWait"
        /\ \E j \in 0 .. (columns - 1) : accessMat(surface[w], 0, j) > 0
        /\ RowOf(surface[w], 0) # RowOf(surface[w - 1], chunk)

Owner(k) == CHOOSE w \in Ranks : g_start(w) <= k /\ k <= g_end(w)

(* C5: after the gather, row k of the grid reassembled on rank 0 is local  *)
(* row k - g_start + 1 of the process that owns k as it was at the end of  *)
(* the simulation loop, for every global row k; the reassembled grid has   *)
(* exactly rows x columns cells, so halo rows contribute nothing.          *)
C5_GatherCorrect ==
    pc[0] \in {"free", "barrier", "done"} =>
        /\ DOMAIN fullSurface = 0 .. (rows * columns - 1)
        /\ \A k \in 0 .. (rows - 1), j \in 0 .. (columns - 1) :
                accessMat(fullSurface, k, j)
                    = accessMat(surface[Owner(k)], k - g_start(Owner(k)) + 1, j)

C5_Witness ==
    /\ size = 4 /\ pc[0] = "done"
    /\ \E c \in DOMAIN fullSurface : fullSurface[c] > 0 /\ c \div columns >= 1

(* C6: the global residual a process uses in the stability test is the     *)
(* maximum over all processes of the local residuals of the last sub-step  *)
(* of that iteration, each of them the residual of that process's buffers. *)
C6_GlobalResidualIsMax ==
    \A w \in Ranks : pc[w] = "teams" =>
        /\ global_residual[w] = SetMax({local_residual[v] : v \in Ranks})
        /\ \A v \in Ranks : pc[v] \in {"maxWait", "teams"} =>
                /\ SubStepNo(v) \in {SubStepNo(w) - 1, SubStepNo(w)}
                /\ local_residual[v] = LocalResidual(surface[v], surfaceCopy[v], v)

C6_Witness ==
    \E w, v \in Ranks :
        /\ pc[w] = "teams" /\ pc[v] = "maxWait"
        /\ local_residual[w] < local_residual[v]
        /\ global_residual[w] >= THRESHOLD

Phase(w) == IF pc[w] \in MidPcs THEN "mid" ELSE "start"

(* C7: two processes at the start of the same outer iteration (and two     *)
(* processes inside the same outer iteration) hold identical focal-point   *)
(* and team arrays.                                                        *)
C7_ReplicatedConsistency ==
    \A w, v \in Ranks :
        (iter[w] = iter[v] /\ Phase(w) = Phase(v)) =>
            (focal[w] = focal[v] /\ teams[w] = teams[v])

C7_Witness ==
    \E w, v \in Ranks :
        /\ w # v /\ pc[w] = "loop" /\ pc[v] = "loop" /\ iter[w] = 1 /\ iter[v] = 1
        /\ \E i \in DOMAIN focal[w] : focal[w][i].active = 2
        /\ \E i \in DOMAIN focal[w] : focal[w][i].active = 1
        /\ \E k \in DOMAIN teams[w] : teams[w][k].target # -1

(* the number of max-reductions a process has entered: its allreduce calls *)
(* less the sum-reductions, one per outer iteration begun                  *)
MaxEntered(v) == coll[v] - (iter[v] + (IF pc[v] \in MidPcs THEN 1 ELSE 0))

(* C8: when a process is in sub-step n+1 (counted over the whole run),     *)
(* every process has entered the max-reduction of sub-step n, and no row   *)
(* sent to that process in sub-step n or earlier is still to be received.  *)
C8_LockStep ==
    \A w \in Ranks : pc[w] \in SubStepPcs =>
        /\ \A v \in Ranks : MaxEntered(v) >= SubStepNo(w)
        /\ \A k \in DOMAIN chan : k[2] = w =>
                \A m \in 1 .. Len(chan[k]) : StampNo(chan[k][m].stamp) >= SubStepNo(w)

C8_Witness ==
    \E w, v \in Ranks :
        /\ pc[w] = "copy" /\ SubStepNo(w) = NumSteps + 1
        /\ pc[v] = "maxWait" /\ MaxEntered(v) = SubStepNo(w)

Finished ==
    /\ \A w \in Ranks : pc[w] = "done" /\ gathered[w] # <<>>
    /\ \A k \in DOMAIN chan : chan[k] = <<>>
    /\ \A w, v \in Ranks : coll[w] = coll[v]

(* C9: every process eventually leaves the simulation loop, takes part in  *)
(* the gather and reaches MPI_Finalize, with every row sent received and   *)
(* every process having entered the same number of reductions.             *)
C9_Completion == <>Finished

C9_Witness == Finished /\ size = 4 /\ iter[0] = 2 /\ coll[0] = 2 * (NumSteps + 1)

OwnedCells(w) == {Idx(i, j) : i \in 1 .. chunk, j \in 0 .. (columns - 1)}

OwnedRows(w) == g_start(w) .. g_end(w)

(* C10: heat reassertion, the stencil update and team suppression write    *)
(* only cells of local rows 1..chunk, whose global row is in the process's *)
(* owned range; a halo cell changes only in a halo-exchange receive, and   *)
(* an owned cell only in one of those three stages.                        *)
C10_OwnedWritesOnly ==
    [][\A w \in Ranks :
        /\ pc[w] = "heat" =>
            \A i \in HeatWrites(focal[w], w) :
                /\ focal[w][i].x \in OwnedRows(w)
                /\ HeatIndex(focal[w], w, i) \in OwnedCells(w)
        /\ pc[w] = "copy" =>
            \A p \in StencilCells(w) :
                /\ g_start(w) + (p[1] - 1) \in OwnedRows(w)
                /\ Idx(p[1], p[2]) \in OwnedCells(w)
        /\ pc[w] = "teams" =>
            \A k \in DOMAIN teams[w] :
                \A p \in ReduceWrites(MoveTeams(teams[w], focal[w])[k], w) :
                    /\ p[1] \in OwnedRows(w)
                    /\ ReduceIndex(w, p) \in OwnedCells(w)
        /\ \A c \in LocalCells :
            surface'[w][c] # surface[w][c] =>
                IF c \in OwnedCells(w) THEN pc[w] \in {"heat", "copy", "teams"}
                ELSE pc[w] \in {"exTopWait", "exBotWait"}]_vars

C10_Witness ==
    \E w \in Ranks : \E k \in DOMAIN teams[w] :
        /\ pc[w] = "loop" /\ iter[w] >= 1
        /\ \E p \in InfluenceArea(teams[w][k]) : p[1] \notin OwnedRows(w)
        /\ \E p \in ReduceWrites(teams[w][k], w) : surface[w][ReduceIndex(w, p)] > 0
        /\ \E c \in LocalCells \ OwnedCells(w) : surface[w][c] > 0

(* C11: the state of a focal point only moves Inactive (0) -> Active (1)   *)
(* -> Deactivated (2), one stage at a time; a Deactivated focal point stays *)
(* Deactivated in every later step of every process.                       *)
C11_FocalStateMachine ==
    [][\A w \in Ranks : \A i \in DOMAIN focal[w] :
        /\ focal'[w][i].active \in {0, 1, 2}
        /\ \/ focal'[w][i].active = focal[w][i].active
           \/ focal[w][i].active = 0 /\ focal'[w][i].active = 1
           \/ focal[w][i].active = 1 /\ focal'[w][i].active = 2]_vars

C11_Witness ==
    \E w \in Ranks : \E i \in DOMAIN focal[w] :
        /\ size > 1 /\ pc[w] = "sumWait" /\ iter[w] > focal[w][i].start
        /\ focal[w][i].active = 2

TeamStep(w) == pc[w] = "teams" /\ pc'[w] = "loop"

StandsOn(tm, fp) == tm.x = fp.x /\ tm.y = fp.y

(* C12 (as amended): in the team-action stage a focal point changes from   *)
(* Active to Deactivated if and only if it is Active and some team whose   *)
(* target it is stands, after that iteration's movement, on its exact      *)
(* coordinates; no other state of a focal point changes in that stage.     *)
C12_DeactivateIffTargetReached ==
    [][\A w \in Ranks : TeamStep(w) =>
        \A i \in DOMAIN focal[w] :
            /\ focal'[w][i].active = 2 /\ focal[w][i].active # 2
                <=> /\ focal[w][i].active = 1
                    /\ \E k \in DOMAIN teams[w] :
                            /\ teams'[w][k].target = i
                            /\ StandsOn(teams'[w][k], focal[w][i])
            /\ focal'[w][i].active # 2 => focal'[w][i] = focal[w][i]]_vars

(* C12 as stated: a focal point changes from Active to Deactivated if and  *)
(* only if it is Active and some team stands on its coordinates after the  *)
(* movement, so that no focal point is Active under a team at the end of   *)
(* an outer iteration.                                                     *)
C12_DeactivateIffOccupied ==
    [][\A w \in Ranks : TeamStep(w) =>
        \A i \in DOMAIN focal[w] :
            focal'[w][i].active = 2 /\ focal[w][i].active # 2
                <=> /\ focal[w][i].active = 1
                    /\ \E k \in DOMAIN teams[w] : StandsOn(teams'[w][k], focal[w][i])]_vars

C12_Witness ==
    \E w \in Ranks : \E i, j \in DOMAIN focal[w] : \E k \in DOMAIN teams[w] :
        /\ pc[w] = "loop" /\ iter[w] = 1
        /\ focal[w][i].active = 2 /\ teams[w][k].target = i
        /\ focal[w][j].active = 1 /\ StandsOn(teams[w][k], focal[w][j])

(* C13: a focal point is Inactive while the iteration counter of a process *)
(* is below its start and until the activation stage of the iteration      *)
(* whose counter equals start; it is Active on that process from the       *)
(* activation stage of that iteration, before the first sub-step, to the    *)
(* team stage; a focal point whose start the counter never reaches (start   *)
(* outside 0 .. max_iter - 1) is Inactive throughout.                       *)
C13_Activation ==
    \A w \in Ranks : \A i \in DOMAIN focal[w] :
        /\ iter[w] < focal[w][i].start => focal[w][i].active = 0
        /\ (pc[w] = "loop" /\ iter[w] = focal[w][i].start) => focal[w][i].active = 0
        /\ (pc[w] \in MidPcs /\ iter[w] = focal[w][i].start) => focal[w][i].active = 1
        /\ focal[w][i].active # 0 => focal[w][i].start \in 0 .. (max_iter - 1)

C13_Witness ==
    /\ size > 1
    /\ \E i \in DOMAIN focal[0] :
            \A w \in Ranks :
                /\ pc[w] \in SubStepPcs /\ iter[w] = 1 /\ step[w] = 0
                /\ focal[w][i].start = 1 /\ focal[w][i].active = 1

ActiveFocal(f) == {i \in DOMAIN f : f[i].active = 1}

(* squared Euclidean distance from team tm to focal point fp *)
Away(tm, fp) == (fp.x - tm.x) * (fp.x - tm.x) + (fp.y - tm.y) * (fp.y - tm.y)

(* C14: in each outer iteration the target of each team is the Active      *)
(* focal point nearest (Euclidean distance) to the position the team had   *)
(* before moving, the lowest index among equally near ones; with no Active *)
(* focal point the target is -1 and the team stays where it is.            *)
C14_Targeting ==
    [][\A w \in Ranks : TeamStep(w) =>
        \A k \in DOMAIN teams[w] :
            LET act == ActiveFocal(focal[w])
                tg == teams'[w][k].target
            IN IF act = {}
               THEN /\ tg = -1
                    /\ teams'[w][k].x = teams[w][k].x /\ teams'[w][k].y = teams[w][k].y
               ELSE /\ tg \in act
                    /\ \A j \in act :
                        \/ Away(teams[w][k], focal[w][tg]) < Away(teams[w][k], focal[w][j])
                        \/ /\ Away(teams[w][k], focal[w][tg]) = Away(teams[w][k], focal[w][j])
                           /\ tg <= j]_vars

(* a type 2 team that has stepped in x onto focal point 0 from the cell    *)
(* midway between focal points 0 and 1, and a team whose target has a      *)
(* higher index than a farther focal point                                 *)
C14_Witness ==
    \E w \in Ranks :
        /\ pc[w] = "loop" /\ iter[w] = 1 /\ num_focal(focal[w]) > 2
        /\ \E k \in DOMAIN teams[w] :
                /\ teams[w][k].type = 2 /\ teams[w][k].target = 0
                /\ StandsOn(teams[w][k], focal[w][0])
                /\ focal[w][1].x = teams[w][k].x + 2 /\ focal[w][1].y = teams[w][k].y
        /\ \E k \in DOMAIN teams[w] : teams[w][k].target = 1

(* one unit toward b from a, or nothing when they are equal *)
Toward(a, b) == IF b < a THEN a - 1 ELSE IF b > a THEN a + 1 ELSE a

(* C15: in one outer iteration a type 2 or type 3 team with a target       *)
(* changes exactly one coordinate, by exactly 1 and toward the target,     *)
(* unless it is already on the target; a type 2 team changes x only when   *)
(* its y equals the target's y, a type 3 team changes y only when its x    *)
(* equals the target's x.                                                  *)
C15_AxisMovement ==
    [][\A w \in Ranks : TeamStep(w) =>
        \A k \in DOMAIN teams[w] :
            LET old == teams[w][k]
                new == teams'[w][k]
            IN (old.type # 1 /\ new.target # -1) =>
                LET fp == focal[w][new.target]
                IN /\ new.type = old.type
                   /\ IF StandsOn(old, fp)
                      THEN new.x = old.x /\ new.y = old.y
                      ELSE \/ /\ new.y = old.y /\ new.x # old.x
                              /\ new.x = Toward(old.x, fp.x)
                           \/ /\ new.x = old.x /\ new.y # old.y
                              /\ new.y = Toward(old.y, fp.y)
                   /\ (old.type = 2 /\ new.x # old.x) => old.y = fp.y
                   /\ (old.type = 3 /\ new.y # old.y) => old.x = fp.x]_vars

(* type 2 and type 3 teams that started diagonally off the focal point and *)
(* have moved twice: the type 2 teams are in its column, the type 3 teams  *)
(* in its row, none has arrived                                            *)
C15_Witness ==
    \E w \in Ranks :
        /\ pc[w] = "loop" /\ iter[w] = 2 /\ num_teams(teams[w]) > 20
        /\ \E k \in DOMAIN teams[w] :
                /\ teams[w][k].type = 2 /\ teams[w][k].target = 0
                /\ teams[w][k].y = focal[w][0].y /\ Abs(teams[w][k].x - focal[w][0].x) = 2
        /\ \E k \in DOMAIN teams[w] :
                /\ teams[w][k].type = 3 /\ teams[w][k].target = 0
                /\ teams[w][k].x = focal[w][0].x /\ Abs(teams[w][k].y - focal[w][0].y) = 2

(* C16: in one outer iteration a type 1 team with a target moves x by      *)
(* exactly 1 toward the target's x when they differ and by 0 when they are *)
(* equal, and likewise y, both in the same iteration.                      *)
C16_DiagonalMovement ==
    [][\A w \in Ranks : TeamStep(w) =>
        \A k \in DOMAIN teams[w] :
            LET old == teams[w][k]
                new == teams'[w][k]
            IN (old.type = 1 /\ new.target # -1) =>
                /\ new.type = 1
                /\ new.x = Toward(old.x, focal[w][new.target].x)
                /\ new.y = Toward(old.y, focal[w][new.target].y)]_vars

(* type 1 teams that started two cells off the focal point, diagonally and *)
(* along one axis, have moved once: one is diagonally adjacent, one is     *)
(* adjacent in its row                                                     *)
C16_Witness ==
    \E w \in Ranks :
        /\ pc[w] = "loop" /\ iter[w] = 1 /\ num_teams(teams[w]) > 20
        /\ \E k \in DOMAIN teams[w] :
                /\ teams[w][k].type = 1 /\ teams[w][k].target = 0
                /\ Abs(teams[w][k].x - focal[w][0].x) = 1
                /\ Abs(teams[w][k].y - focal[w][0].y) = 1
        /\ \E k \in DOMAIN teams[w] :
                /\ teams[w][k].type = 1 /\ teams[w][k].target = 0
                /\ teams[w][k].x = focal[w][0].x
                /\ Abs(teams[w][k].y - focal[w][0].y) = 1

(* the teams of t within their radius (3 for type 1, 9 otherwise) of the   *)
(* global cell (i, j), none when the cell is on the outermost border       *)
Covering(t, i, j) ==
    {k \in DOMAIN t :
        /\ 1 <= i /\ i <= rows - 2 /\ 1 <= j /\ j <= columns - 2
        /\ Away(t[k], [x |-> i, y |-> j])
                <= (IF t[k].type = 1 THEN 3 * 3 ELSE 9 * 9)}

(* C17: in the team stage of a process every owned cell is multiplied by   *)
(* 0.75 once for each team whose post-move position is within that team's  *)
(* radius of the cell, if the cell is inside the outermost global border;  *)
(* every other cell of the process, border and halo cells included, is     *)
(* left as it was.                                                         *)
C17_Suppression ==
    [][\A w \in Ranks : TeamStep(w) =>
        \A li \in 0 .. (chunk + 1), j \in 0 .. (columns - 1) :
            accessMat(surface'[w], li, j) =
                IF li \in 1 .. chunk
                THEN Cool(accessMat(surface[w], li, j),
                          Cardinality(Covering(teams'[w], g_start(w) + li - 1, j)))
                ELSE accessMat(surface[w], li, j)]_vars

(* after the team stage on a surface longer than the radii: warm interior  *)
(* cells of one process of which one is covered by one team, one by two    *)
(* teams and one by none although it is inside the square of side 2*radius *)
(* around a team; the team also covers a row of another process            *)
C17_Witness ==
    \E w \in Ranks :
        /\ size > 1 /\ pc[w] = "loop" /\ iter[w] = 1
        /\ \E li \in 1 .. chunk, j \in 1 .. (columns - 2) :
                /\ accessMat(surface[w], li, j) > 0
                /\ Cardinality(Covering(teams[w], g_start(w) + li - 1, j)) = 1
        /\ \E li \in 1 .. chunk, j \in 1 .. (columns - 2) :
                /\ accessMat(surface[w], li, j) > 0
                /\ Cardinality(Covering(teams[w], g_start(w) + li - 1, j)) = 2
        /\ \E li \in 1 .. chunk, j \in 1 .. (columns - 2) : \E k \in DOMAIN teams[w] :
                /\ accessMat(surface[w], li, j) > 0
                /\ Covering(teams[w], g_start(w) + li - 1, j) = {}
                /\ teams[w][k].type = 1
                /\ Abs(teams[w][k].x - (g_start(w) + li - 1)) <= 3
                /\ Abs(teams[w][k].y - j) <= 3
        /\ \E i \in 1 .. (rows - 2), j \in 1 .. (columns - 2) :
                /\ Covering(teams[w], i, j) # {}
                /\ i \notin OwnedRows(w)

(* the run with rows = 5, columns = 5, max_iter = 50, one type 1 team at  *)
(* (0,0) and one focal point at (2,2) with start 0 and heat 100            *)
Scenario5x5 ==
    /\ rows = 5 /\ columns = 5 /\ max_iter = 50
    /\ \A w \in Ranks :
        /\ DOMAIN teams[w] = {0} /\ teams[w][0].type = 1
        /\ DOMAIN focal[w] = {0} /\ focal[w][0].start = 0 /\ focal[w][0].heat = 100
        /\ focal[w][0].x = 2 /\ focal[w][0].y = 2

TeamAt(w, x, y) == teams[w][0].x = x /\ teams[w][0].y = y

LeftLoop(w) == pc[w] \in {"gatherWait", "free", "barrier", "done"}

(* C20 (as amended): in that run the focal point is Active from the        *)
(* activation stage of iteration 0; the team is at (1,1) after iteration 0 *)
(* and reaches (2,2) in iteration 1, whose team stage deactivates the      *)
(* focal point, so that it is Deactivated from the start of iteration 2;   *)
(* the loop is left before max_iter only with the stability flag set, the  *)
(* focal point Deactivated and the last global residual below THRESHOLD.   *)
C20_Scenario ==
    Scenario5x5 =>
        \A w \in Ranks :
            /\ (iter[w] = 0 /\ pc[w] = "loop") => (focal[w][0].active = 0 /\ TeamAt(w, 0, 0))
            /\ (iter[w] = 0 /\ pc[w] \in MidPcs) => (focal[w][0].active = 1 /\ TeamAt(w, 0, 0))
            /\ iter[w] = 1 => (focal[w][0].active = 1 /\ TeamAt(w, 1, 1))
            /\ iter[w] >= 2 => (focal[w][0].active = 2 /\ TeamAt(w, 2, 2))
            /\ flag_stability[w] => global_residual[w] < THRESHOLD
            /\ (LeftLoop(w) /\ iter[w] < max_iter) => flag_stability[w]

(* C20 as stated: the focal point is still Active in the iteration whose   *)
(* counter is 2 and is deactivated by the team stage of that iteration.    *)
C20_DeactivatedInIteration2 ==
    Scenario5x5 =>
        \A w \in Ranks :
            /\ (iter[w] = 2 /\ pc[w] \in MidPcs) => focal[w][0].active = 1
            /\ iter[w] >= 3 => focal[w][0].active = 2

C20_Witness ==
    /\ Scenario5x5
    /\ pc[0] = "done" /\ flag_stability[0] /\ iter[0] > 2 /\ iter[0] < max_iter
    /\ focal[0][0].active = 2 /\ TeamAt(0, 2, 2)

AllocationFailed == \E v \in Ranks : stderr[v] # <<>>

(* C18: when the allocation of the local buffers of a process fails, the   *)
(* failure is written to stderr and, from then on, no process enters a     *)
(* stage of the simulation loop (activation, reduction, halo exchange,     *)
(* stencil, team stage).                                                   *)
C18_AllocationFailureAborts ==
    [][/\ \A w \in Ranks :
            (pc[w] = "alloc" /\ surfacePtr'[w] = "null") => stderr'[w] # <<>>
       /\ AllocationFailed =>
            \A w \in Ranks : pc'[w] # pc[w] => pc'[w] \notin MidPcs]_vars

(* C19: when rows is not a multiple of the number of processes no process  *)
(* gets past the set-up, so that whenever a process is in the simulation   *)
(* every global row has an owner.                                          *)
C19_DivisibilityChecked ==
    \A w \in Ranks :
        pc[w] \notin {"alloc", "crashed"} =>
            /\ rows % size = 0
            /\ \A k \in 0 .. (rows - 1) : Owners(k) # {}

(* the positions that may follow position p inside a sub-step *)
AfterPc(p) ==
    IF p = "heat" THEN {"exTop"}
    ELSE IF p = "exTop" THEN {"exTopWait", "exBot"}
    ELSE IF p = "exTopWait" THEN {"exBot"}
    ELSE IF p = "exBot" THEN {"exBotWait", "copy"}
    ELSE IF p = "exBotWait" THEN {"copy"}
    ELSE IF p = "copy" THEN {"maxWait"}
    ELSE {"heat", "teams"}

(* C21: in every sub-step a process reasserts the heat, then exchanges the *)
(* halo rows, then copies surface into surfaceCopy, then updates the       *)
(* stencil from surfaceCopy; and whenever two adjacent processes have made *)
(* the same number of copies, the halo rows in the surfaceCopy of each     *)
(* equal the boundary rows in the surfaceCopy of the other.                *)
C21_ExchangeOrdering ==
    /\ [](\A w \in Ranks :
            (w > 0 /\ MaxEntered(w) > 0 /\ MaxEntered(w) = MaxEntered(w - 1)) =>
                /\ RowOf(surfaceCopy[w], 0) = RowOf(surfaceCopy[w - 1], chunk)
                /\ RowOf(surfaceCopy[w - 1], chunk + 1) = RowOf(surfaceCopy[w], 1))
    /\ [][\A w \in Ranks :
            (pc[w] \in SubStepPcs /\ pc'[w] # pc[w]) =>
                /\ pc'[w] \in AfterPc(pc[w])
                /\ pc[w] # "copy" => surfaceCopy'[w] = surfaceCopy[w]
                /\ pc[w] = "copy" =>
                    /\ surfaceCopy'[w] = surface[w]
                    /\ \A p \in StencilCells(w) :
                        accessMat(surface'[w], p[1], p[2]) =
                            (accessMat(surfaceCopy'[w], p[1] - 1, p[2])
                             + accessMat(surfaceCopy'[w], p[1] + 1, p[2])
                             + accessMat(surfaceCopy'[w], p[1], p[2] - 1)
                             + accessMat(surfaceCopy'[w], p[1], p[2] + 1)) \div 4]_vars

(* the first sub-step of iteration 1, both neighbours past the stencil: the *)
(* halo read is warm and lies on a row a team cooled in iteration 0        *)
C21_Witness ==
    \E w \in Ranks :
        /\ w > 0 /\ pc[w] = "maxWait" /\ pc[w - 1] = "maxWait"
        /\ iter[w] = 1 /\ step[w] = 0 /\ iter[w - 1] = 1 /\ step[w - 1] = 0
        /\ \E j \in 1 .. (columns - 2) :
                /\ accessMat(surfaceCopy[w], 0, j) > 0
                /\ Covering(teams[w], g_end(w - 1), j) # {}

(* C22: two processes that have ended the same number of outer iterations *)
(* hold the same stability flag, a process inside an iteration holds a     *)
(* clear flag, and two processes that have left the simulation loop have   *)
(* executed the same number of outer iterations.                           *)
C22_StopAgreement ==
    \A w, v \in Ranks :
        /\ pc[w] \in MidPcs => ~flag_stability[w]
        /\ (pc[w] \notin MidPcs /\ pc[v] \notin MidPcs /\ iter[w] = iter[v])
                => flag_stability[w] = flag_stability[v]
        /\ (LeftLoop(w) /\ LeftLoop(v)) => iter[w] = iter[v]
        /\ LeftLoop(w) => (flag_stability[w] \/ iter[w] = max_iter)

C22_Witness ==
    /\ size > 1 /\ num_focal(focal[0]) > 0
    /\ \A w \in Ranks : pc[w] = "done" /\ flag_stability[w] /\ iter[w] = iter[0]

(* focal point i of f is Active, inside the surface, and the last Active   *)
(* focal point of the array on its cell                                    *)
Heats(f, i) ==
    /\ f[i].active = 1
    /\ f[i].x \in 0 .. (rows - 1) /\ f[i].y \in 0 .. (columns - 1)
    /\ \A k \in DOMAIN f :
            (k > i /\ f[k].x = f[i].x /\ f[k].y = f[i].y) => f[k].active # 1

AfterHeatPcs == {"exTop", "exTopWait", "exBot", "exBotWait", "copy"}

C24_IterationCount ==
    /\ [](\A w \in Ranks :
            /\ pc[w] \in MidPcs => (iter[w] < max_iter /\ ~flag_stability[w])
            /\ (LeftLoop(w) \/ pc[w] = "reported") =>
                    /\ coll[w] = (NumSteps + 1) * iter[w]
                    /\ iter[w] <= max_iter
                    /\ ~flag_stability[w] => iter[w] = max_iter
            /\ stdout[w] # <<>> => stdout[w][1] = iter[w])
    /\ [][\A w \in Ranks :
            /\ (~flag_stability[w] /\ flag_stability'[w]) =>
                    /\ pc[w] = "teams"
                    /\ iter'[w] = iter[w] + 1
                    /\ teams'[w] = MoveTeams(teams[w], focal[w])
            /\ flag_stability[w] => (flag_stability'[w] /\ iter'[w] = iter[w])]_vars

(* a run that has printed its count after declaring stability in its first *)
(* iteration, and one that has printed max_iter without declaring it       *)
C24_Witness ==
    \E w \in Ranks :
        /\ pc[w] = "reported" /\ flag_stability[w] /\ max_iter > 1
        /\ stdout[w][1] = 1

C24_WitnessMaxIter ==
    \E w \in Ranks :
        /\ pc[w] = "reported" /\ ~flag_stability[w] /\ max_iter > 0
        /\ stdout[w][1] = max_iter

(* the cell (li, j) of a local slice lies on the border of the surface *)
OnBorder(w, li, j) ==
    \/ g_start(w) + li - 1 = 0 \/ g_start(w) + li - 1 = rows - 1
    \/ j = 0 \/ j = columns - 1

(* C25: the step that updates the stencil leaves every cell of global row  *)
(* 0, of global row rows-1, of column 0 and of column columns-1 as it was, *)
(* and the halo rows too; every other cell of the owned rows becomes the   *)
(* mean of its four neighbours in the surface before the step; a process   *)
(* takes that step once in each sub-step, and between two such steps only  *)
(* heat reassertion and the team stage write owned rows.                   *)
C25_StencilFrame ==
    /\ [](\A w \in Ranks : pc[w] \in SubStepPcs =>
            MaxEntered(w) = SubStepNo(w) + (IF pc[w] = "maxWait" THEN 1 ELSE 0))
    /\ [][\A w \in Ranks :
            /\ (pc[w] = "copy" /\ pc'[w] # "copy") =>
                    /\ MaxEntered(w)' = MaxEntered(w) + 1
                    /\ \A li \in 0 .. (chunk + 1), j \in 0 .. (columns - 1) :
                            accessMat(surface'[w], li, j) =
                                IF li \in 1 .. chunk /\ ~OnBorder(w, li, j)
                                THEN (accessMat(surface[w], li - 1, j)
                                      + accessMat(surface[w], li + 1, j)
                                      + accessMat(surface[w], li, j - 1)
                                      + accessMat(surface[w], li, j + 1)) \div 4
                                ELSE accessMat(surface[w], li, j)
            /\ (pc[w] \in SubStepPcs \ {"copy", "heat"}) =>
                    \A li \in 1 .. chunk, j \in 0 .. (columns - 1) :
                        accessMat(surface'[w], li, j) = accessMat(surface[w], li, j)]_vars

(* a stencil update has just changed an inner cell next to a border cell   *)
(* that holds heat, and has left the border cell alone                     *)
C25_Witness ==
    \E w \in Ranks : \E li \in 1 .. chunk, j \in 1 .. (columns - 2) :
        /\ pc[w] = "maxWait"
        /\ ~OnBorder(w, li, j)
        /\ accessMat(surface[w], li, j) # accessMat(surfaceCopy[w], li, j)
        /\ \E bi \in 1 .. chunk, bj \in 0 .. (columns - 1) :
                /\ OnBorder(w, bi, bj)
                /\ accessMat(surface[w], bi, bj) > 0
                /\ accessMat(surface[w], bi, bj) = accessMat(surfaceCopy[w], bi, bj)

(* the cells of the surface copy a stencil update of process w reads *)
StencilReads(w) ==
    UNION {{<<p[1] - 1, p[2]>>, <<p[1] + 1, p[2]>>, <<p[1], p[2] - 1>>, <<p[1], p[2] + 1>>} :
            p \in StencilCells(w)}

(* C26: local row 0 of rank 0 and local row chunk+1 of the last rank hold 0 *)
(* in every cell, in the surface and in its copy, in every state of the    *)
(* run and for every number of processes; no stencil update reads a cell   *)
(* of either row.                                                          *)
C26_OutwardHalos ==
    /\ \A j \in 0 .. (columns - 1) :
            /\ accessMat(surface[0], 0, j) = 0
            /\ accessMat(surfaceCopy[0], 0, j) = 0
            /\ accessMat(surface[size - 1], chunk + 1, j) = 0
            /\ accessMat(surfaceCopy[size - 1], chunk + 1, j) = 0
    /\ \A p \in StencilReads(0) : p[1] # 0
    /\ \A p \in StencilReads(size - 1) : p[1] # chunk + 1

(* a finished run in which both border rows of the surface hold heat next  *)
(* to the outward halos, and the stencil has read rows 1 and chunk         *)
C26_Witness ==
    /\ \A w \in Ranks : pc[w] = "done"
    /\ iter[0] > 0
    /\ \E j \in 0 .. (columns - 1) :
            /\ accessMat(surface[0], 1, j) > 0
            /\ accessMat(surface[size - 1], chunk, j) > 0
    /\ \E p \in StencilReads(0) : p[1] = 1
    /\ \E p \in StencilReads(size - 1) : p[1] = chunk

(* C27: a finished run of any number of processes has executed the number  *)
(* of outer iterations of the run on the undivided grid, which is the run  *)
(* of one process (C4), and ends with its focal points, its teams and, in  *)
(* the gathered grid, its surface.                                         *)
C27_WorkerCountIndependence ==
    (\A w \in Ranks : pc[w] = "done") =>
        /\ iter[0] = Len(ref) - 1
        /\ focal[0] = ref[Len(ref)].focal
        /\ \A k \in DOMAIN teams[0] :
                /\ teams[0][k].x = ref[Len(ref)].teams[k].x
                /\ teams[0][k].y = ref[Len(ref)].teams[k].y
        /\ fullSurface = ref[Len(ref)].grid

(* the squared distance from team tm to the nearest Active focal point of f *)
DistNearest(tm, f) ==
    LET ds == {Dist2(f[i].x, f[i].y, tm.x, tm.y) : i \in ActiveFocal(f)}
    IN CHOOSE d \in ds : \A e \in ds : d <= e

SomeActive(f) == ActiveFocal(f) # {}

(* C28, as far as a finite run can show it: with at least one team, a       *)
(* process leaves the loop before max_iter only when no focal point is     *)
(* Active; and over the team stage of an iteration that starts and ends    *)
(* with some focal point Active, a team that does not reach a focal point  *)
(* ends nearer to its nearest Active focal point than it started (the next *)
(* iteration measures the same distance unless a focal point activates).   *)
C28_SuppressionProgress ==
    [][\A w \in Ranks :
        /\ (LeftLoop(w)' /\ iter'[w] < max_iter /\ num_teams(teams'[w]) > 0) =>
                ~SomeActive(focal'[w])
        /\ (pc[w] = "teams" /\ pc'[w] = "loop") =>
                \A k \in DOMAIN teams[w] :
                    (/\ SomeActive(focal[w]) /\ SomeActive(focal'[w])
                     /\ DistNearest(teams[w][k], focal[w]) > 0
                     /\ DistNearest(teams'[w][k], focal[w]) > 0) =>
                        DistNearest(teams'[w][k], focal'[w]) < DistNearest(teams[w][k], focal[w])]_vars

(* what holds of the loop exit: with one process it comes before max_iter  *)
(* only when every focal point is Deactivated                              *)
C28_OneProcessExit ==
    \A w \in Ranks :
        (size = 1 /\ LeftLoop(w) /\ iter[w] < max_iter) => AllDeactivated(focal[w])

(* what holds of the distance: a team that moves ends nearer to the        *)
(* nearest of the focal points that were Active before it moved            *)
C28_TargetDistanceDecreases ==
    [][\A w \in Ranks : (pc[w] = "teams" /\ pc'[w] = "loop") =>
        \A k \in DOMAIN teams[w] :
            (SomeActive(focal[w]) /\ DistNearest(teams[w][k], focal[w]) > 0) =>
                DistNearest(teams'[w][k], focal[w]) < DistNearest(teams[w][k], focal[w])]_vars

(* the two parts of C28 taken apart *)
C28_ExitPart ==
    \A w \in Ranks :
        (LeftLoop(w) /\ iter[w] < max_iter /\ num_teams(teams[w]) > 0) => ~SomeActive(focal[w])

C28_DistancePart ==
    [][\A w \in Ranks : (pc[w] = "teams" /\ pc'[w] = "loop") =>
        \A k \in DOMAIN teams[w] :
            (/\ SomeActive(focal[w]) /\ SomeActive(focal'[w])
             /\ DistNearest(teams[w][k], focal[w]) > 0
             /\ DistNearest(teams'[w][k], focal[w]) > 0) =>
                DistNearest(teams'[w][k], focal'[w]) < DistNearest(teams[w][k], focal[w])]_vars

(* the place of focal point i among the values of the "Result:" line *)
ResultPos(f, i) == 1 + Cardinality({k \in Reported(f) : k <= i})

(* C29: a process that reports while some focal point lies inside the      *)
(* surface reads through a pointer to the gathered surface, is not killed  *)
(* by the read, and prints for each such focal point the cell of the       *)
(* gathered surface; for every number of processes.                        *)
C29_ReadsAfterGather ==
    [][\A w \in Ranks :
        (pc[w] = "done" /\ pc'[w] # "done" /\ Reported(focal[w]) # {}) =>
            /\ surfacePtr[w] = "full"
            /\ pc'[w] = "reported"
            /\ Len(stdout'[w]) = 1 + Cardinality(Reported(focal[w]))
            /\ \A i \in Reported(focal[w]) :
                    stdout'[w][ResultPos(focal[w], i)] =
                        accessMat(fullSurface, focal[w][i].x, focal[w][i].y)]_vars

(* what holds: rank 0 reads the gathered surface *)
C29_RootReadsGathered ==
    [][(pc[0] = "done" /\ pc'[0] # "done") =>
            /\ surfacePtr[0] = "full"
            /\ pc'[0] = "reported"
            /\ Len(stdout'[0]) = 1 + Cardinality(Reported(focal[0]))
            /\ \A i \in Reported(focal[0]) :
                    stdout'[0][ResultPos(focal[0], i)] =
                        accessMat(fullSurface, focal[0][i].x, focal[0][i].y)]_vars

(* ================= the Laplace programs ================= *)
(* Three programs solve the Laplace equation on an N x M matrix by Jacobi  *)
(* iteration: unnamed/part_000 gives each rank a slice with halo rows and  *)
(* exchanges them with MPI_Sendrecv ("sendrecv"); the second program of    *)
(* laplace.c keeps the whole matrix on every rank and exchanges rows with  *)
(* MPI_Send and MPI_Recv ("blocking"); the first program of laplace.c is   *)
(* the sequential one ("sequential", one process).  Floats are fixed point. *)
MaxN == 6
MaxLapIter == 2

(* the values memory may hold where the program never assigned one *)
JunkValues == {0, Scale}

LRanks == 0 .. (nprocs - 1)

(* tol = 1.0e-3f * 1.0e-3f *)
tol == Scale \div 1000000

(* sinf(row_index * M_PI / (n - 1)), as the parabola through its zeros and *)
(* its maximum; negative for the row below the matrix                      *)
Sine(row_index) == (4 * row_index * ((N - 1) - row_index) * Scale) \div ((N - 1) * (N - 1))

(* exp(-M_PI) * calculation *)
ExpPi(calculation) == (calculation * 43) \div 1000

(* ---- unnamed/part_000: the slice of a rank ---- *)
rank_n_step == N \div nprocs

process_n(r) == IF r = 0 \/ r = nprocs - 1 THEN rank_n_step + 1 ELSE rank_n_step + 2

row_index(r, i) == (i + r * rank_n_step) - (IF r # 0 THEN 1 ELSE 0)

(* ---- laplace.c: the rows of a rank ---- *)
process_start_n(r) == ((r * N) \div nprocs) + (IF r = 0 THEN 1 ELSE 0)

process_finish_n(r) ==
    (((r + 1) * N) \div nprocs) - (IF r # 0 /\ r = nprocs - 1 THEN 1 ELSE 0)

(* the rows a rank has allocated, and the matrix row of its local row i *)
AllocRows(r) == IF variant = "sendrecv" THEN process_n(r) ELSE N

GlobalRow(r, i) == IF variant = "sendrecv" THEN row_index(r, i) ELSE i

(* the local rows the stencil loop of a rank updates *)
LoopRows(r) ==
    IF variant = "sendrecv" THEN 1 .. (process_n(r) - 2)
    ELSE IF variant = "blocking" THEN process_start_n(r) .. (process_finish_n(r) - 1)
    ELSE 1 .. (N - 2)

(* the initial matrices: boundary values in the first and the last column; *)
(* part_000 zeroes the inner cells of A and Anew, laplace.c (both of its   *)
(* programs) those of A only                                               *)
InitA(r) ==
    [c \in 0 .. (AllocRows(r) * M - 1) |->
        IF c % M = 0 THEN Sine(GlobalRow(r, c \div M))
        ELSE IF c % M = M - 1 THEN ExpPi(Sine(GlobalRow(r, c \div M)))
        ELSE 0]

InitAnew(r) ==
    [c \in 0 .. (AllocRows(r) * M - 1) |->
        IF c % M = 0 THEN Sine(GlobalRow(r, c \div M))
        ELSE IF c % M = M - 1 THEN ExpPi(Sine(GlobalRow(r, c \div M)))
        ELSE IF variant = "sendrecv" THEN 0 ELSE junk]

(* a read of a[c]: a cell past the end of the allocation holds anything *)
Cell(a, c) == IF c \in DOMAIN a THEN a[c] ELSE junk

Stencil(a, i, j) ==
    (Cell(a, (i - 1) * M + j) + Cell(a, (i + 1) * M + j)
     + Cell(a, i * M + (j - 1)) + Cell(a, i * M + (j + 1))) \div 4

(* the stencil loop: Anew after it, and the largest point_error *)
Jacobi(a, anew, r) ==
    [c \in DOMAIN anew |->
        IF (c \div M) \in LoopRows(r) /\ (c % M) \in 1 .. (M - 2)
        THEN Stencil(a, c \div M, c % M)
        ELSE anew[c]]

PointErrors(a, anew, r) ==
    {Abs(anew[c] - a[c]) : c \in {c \in DOMAIN anew :
                                    (c \div M) \in LoopRows(r) /\ (c % M) \in 1 .. (M - 2)}}

LocalError(a, anew, r) ==
    IF PointErrors(a, anew, r) = {} THEN 0 ELSE SetMax(PointErrors(a, anew, r))

(* the cells initialisation assigns in A and in Anew *)
InitAssigned(r) ==
    [A |-> 0 .. (AllocRows(r) * M - 1),
     Anew |-> {c \in 0 .. (AllocRows(r) * M - 1) :
                    variant = "sendrecv" \/ c % M \in {0, M - 1}}]

(* the cells the stencil loop of a rank writes, and those it reads from A *)
LoopCells(r) == {i * M + j : i \in LoopRows(r), j \in 1 .. (M - 2)}

StencilReadCells(r) ==
    UNION {{c - M, c + M, c - 1, c + 1} : c \in LoopCells(r)}

(* the M floats at &a[i * M], a row that may lie outside the allocation *)
LRow(a, i) == [j \in 1 .. M |-> Cell(a, i * M + (j - 1))]

RowCells(a, i) == {c \in DOMAIN a : c \div M = i}

LPutRow(a, i, row) == [c \in DOMAIN a |-> IF c \div M = i THEN row[(c % M) + 1] ELSE a[c]]

LSlot(r) == (lcoll[r] - 1) % 2

LAllEntered(r) == \A v \in LRanks : lcoll[v] >= lcoll[r]

(* ---- inputs ---- *)
LaplaceConfigs ==
    {c \in (3 .. MaxN) \X (1 .. MaxN) : c[1] % c[2] = 0}

(* laplace.c runs with any number of processes; its first program with one *)
LaplaceRuns ==
    {<<"sendrecv", c[1], c[2]>> : c \in LaplaceConfigs}
    \cup {<<"blocking", c[1], c[2]>> : c \in (3 .. MaxN) \X (1 .. MaxN)}
    \cup {<<"sequential", n, 1>> : n \in 3 .. MaxN}

FireIdle ==
    /\ rows = 0 /\ columns = 0 /\ max_iter = 0 /\ size = 0
    /\ pc = <<>> /\ iter = <<>> /\ step = <<>> /\ flag_stability = <<>>
    /\ first_activation = <<>> /\ local_num_deactivated = <<>> /\ num_deactivated = <<>>
    /\ local_residual = <<>> /\ global_residual = <<>> /\ focal = <<>> /\ teams = <<>>
    /\ surface = <<>> /\ surfaceCopy = <<>> /\ chan = <<>> /\ coll = <<>> /\ cbuf = <<>>
    /\ gathered = <<>> /\ fullSurface = <<>> /\ surfacePtr = <<>> /\ ref = <<>>
    /\ stderr = <<>> /\ stdout = <<>>

LaplaceInit ==
    /\ FireIdle
    /\ \E c \in LaplaceRuns, mi \in 0 .. MaxLapIter :
        /\ variant = c[1] /\ N = c[2] /\ M = Columns /\ nprocs = c[3] /\ iter_max = mi
    /\ eager \in (IF variant = "blocking" THEN BOOLEAN ELSE {TRUE})
    /\ junk \in (IF variant = "sendrecv" THEN {0} ELSE JunkValues)
    /\ alias_ok \in (IF variant = "sequential" THEN {TRUE} ELSE BOOLEAN)
    /\ lpc = [r \in LRanks |-> "loop"]
    /\ liter = [r \in LRanks |-> 0]
    /\ error = [r \in LRanks |-> Scale]
    /\ A = [r \in LRanks |-> InitA(r)]
    /\ Anew = [r \in LRanks |-> InitAnew(r)]
    /\ assigned = [r \in LRanks |-> InitAssigned(r)]
    /\ mail = [k \in LRanks \X LRanks |-> <<>>]
    /\ lcoll = [r \in LRanks |-> 0]
    /\ lcbuf = [s \in 0 .. 1 |-> [r \in LRanks |-> 0]]

linput == <<variant, N, M, iter_max, nprocs, eager, junk, alias_ok>>

(* ---- actions ---- *)
(* the loop test, the stencil loop and the swap of A and Anew *)
LCompute(r) ==
    /\ variant # "sequential"
    /\ lpc[r] = "loop"
    /\ error[r] > tol /\ liter[r] < iter_max
    /\ LET anew == Jacobi(A[r], Anew[r], r)
       IN /\ error' = [error EXCEPT ![r] = LocalError(A[r], anew, r)]
          /\ A' = [A EXCEPT ![r] = anew]
          /\ Anew' = [Anew EXCEPT ![r] = A[r]]
    /\ assigned' = [assigned EXCEPT ![r] =
                        [A |-> @.Anew \cup LoopCells(r), Anew |-> @.A]]
    /\ lpc' = [lpc EXCEPT ![r] =
                IF variant = "sendrecv" THEN "ex1"
                ELSE IF r = 0 THEN "p1Send" ELSE "p1Recv"]
    /\ UNCHANGED <<fire, linput, liter, mail, lcoll, lcbuf>>

(* the first program of laplace.c: one pass of its loop, iter++ included *)
LSequential(r) ==
    /\ variant = "sequential"
    /\ lpc[r] = "loop"
    /\ error[r] > tol /\ liter[r] < iter_max
    /\ LET anew == Jacobi(A[r], Anew[r], r)
       IN /\ error' = [error EXCEPT ![r] = LocalError(A[r], anew, r)]
          /\ A' = [A EXCEPT ![r] = anew]
          /\ Anew' = [Anew EXCEPT ![r] = A[r]]
    /\ assigned' = [assigned EXCEPT ![r] =
                        [A |-> @.Anew \cup LoopCells(r), Anew |-> @.A]]
    /\ liter' = [liter EXCEPT ![r] = @ + 1]
    /\ UNCHANGED <<fire, linput, lpc, mail, lcoll, lcbuf>>

(* part_000, first MPI_Sendrecv: row 1 to rank-1 with tag rank *)
LExchangeUp(r) ==
    /\ lpc[r] = "ex1"
    /\ IF r > 0
       THEN /\ mail' = [mail EXCEPT ![<<r, r - 1>>] =
                            Append(@, [tag |-> r, row |-> LRow(A[r], 1)])]
            /\ lpc' = [lpc EXCEPT ![r] = "ex1Wait"]
       ELSE /\ mail' = mail
            /\ lpc' = [lpc EXCEPT ![r] = "ex2"]
    /\ UNCHANGED <<fire, linput, liter, error, A, Anew, assigned, lcoll, lcbuf>>

(* its receive half: from rank-1 with tag rank-1 into row 0 *)
LExchangeUpRecv(r) ==
    /\ lpc[r] = "ex1Wait"
    /\ mail[<<r - 1, r>>] # <<>> /\ Head(mail[<<r - 1, r>>]).tag = r - 1
    /\ A' = [A EXCEPT ![r] = LPutRow(@, 0, Head(mail[<<r - 1, r>>]).row)]
    /\ assigned' = [assigned EXCEPT ![r].A = @ \cup RowCells(A[r], 0)]
    /\ mail' = [mail EXCEPT ![<<r - 1, r>>] = Tail(@)]
    /\ lpc' = [lpc EXCEPT ![r] = "ex2"]
    /\ UNCHANGED <<fire, linput, liter, error, Anew, lcoll, lcbuf>>

(* part_000, second MPI_Sendrecv: row process_n-2 to rank+1 with tag rank *)
LExchangeDown(r) ==
    /\ lpc[r] = "ex2"
    /\ IF r < nprocs - 1
       THEN /\ mail' = [mail EXCEPT ![<<r, r + 1>>] =
                            Append(@, [tag |-> r, row |-> LRow(A[r], process_n(r) - 2)])]
            /\ lpc' = [lpc EXCEPT ![r] = "ex2Wait"]
       ELSE /\ mail' = mail
            /\ lpc' = [lpc EXCEPT ![r] = "red"]
    /\ UNCHANGED <<fire, linput, liter, error, A, Anew, assigned, lcoll, lcbuf>>

(* its receive half: from rank+1 with tag rank+1 into row process_n-1 *)
LExchangeDownRecv(r) ==
    /\ lpc[r] = "ex2Wait"
    /\ mail[<<r + 1, r>>] # <<>> /\ Head(mail[<<r + 1, r>>]).tag = r + 1
    /\ A' = [A EXCEPT ![r] = LPutRow(@, process_n(r) - 1, Head(mail[<<r + 1, r>>]).row)]
    /\ assigned' = [assigned EXCEPT ![r].A = @ \cup RowCells(A[r], process_n(r) - 1)]
    /\ mail' = [mail EXCEPT ![<<r + 1, r>>] = Tail(@)]
    /\ lpc' = [lpc EXCEPT ![r] = "red"]
    /\ UNCHANGED <<fire, linput, liter, error, Anew, lcoll, lcbuf>>

(* laplace.c, first exchange: MPI_Send of row process_finish_n-1 to the    *)
(* rank below (rank 0 names rank 1).  A destination that is not a rank of  *)
(* the communicator is an error, and errors are fatal.                     *)
LSendDown(r) ==
    /\ lpc[r] = "p1Send"
    /\ IF r + 1 \in LRanks
       THEN /\ mail' = [mail EXCEPT ![<<r, r + 1>>] =
                            Append(@, [tag |-> 0, row |-> LRow(A[r], process_finish_n(r) - 1)])]
            /\ lpc' = [lpc EXCEPT ![r] = "p1SendWait"]
       ELSE /\ mail' = mail
            /\ lpc' = [lpc EXCEPT ![r] = "aborted"]
    /\ UNCHANGED <<fire, linput, liter, error, A, Anew, assigned, lcoll, lcbuf>>

(* laplace.c, first exchange: MPI_Recv from rank-1 into row process_start_n-1. *)
(* With more processes than rows that row lies before the allocation: the  *)
(* write leaves A as it was and the process goes on, or it is killed.       *)
LRecvFromAbove(r) ==
    /\ lpc[r] = "p1Recv"
    /\ mail[<<r - 1, r>>] # <<>>
    /\ A' = [A EXCEPT ![r] = LPutRow(@, process_start_n(r) - 1, Head(mail[<<r - 1, r>>]).row)]
    /\ assigned' = [assigned EXCEPT ![r].A = @ \cup RowCells(A[r], process_start_n(r) - 1)]
    /\ mail' = [mail EXCEPT ![<<r - 1, r>>] = Tail(@)]
    /\ \/ lpc' = [lpc EXCEPT ![r] = IF r = nprocs - 1 THEN "p2Send" ELSE "p1Send"]
       \/ /\ process_start_n(r) - 1 < 0
          /\ lpc' = [lpc EXCEPT ![r] = "crashed"]
    /\ UNCHANGED <<fire, linput, liter, error, Anew, lcoll, lcbuf>>

(* MPI_Send returns: the row was buffered, or it has been received *)
LSendReturn(r) ==
    /\ lpc[r] \in {"p1SendWait", "p2SendWait"}
    /\ \/ eager
       \/ lpc[r] = "p1SendWait" /\ mail[<<r, r + 1>>] = <<>>
       \/ lpc[r] = "p2SendWait" /\ mail[<<r, r - 1>>] = <<>>
    /\ lpc' = [lpc EXCEPT ![r] = IF lpc[r] = "p1SendWait" THEN "p2Recv" ELSE "red"]
    /\ UNCHANGED <<fire, linput, liter, error, A, Anew, assigned, mail, lcoll, lcbuf>>

(* laplace.c, second exchange: MPI_Recv from rank+1 into row process_finish_n *)
LRecvFromBelow(r) ==
    /\ lpc[r] = "p2Recv"
    /\ mail[<<r + 1, r>>] # <<>>
    /\ A' = [A EXCEPT ![r] = LPutRow(@, process_finish_n(r), Head(mail[<<r + 1, r>>]).row)]
    /\ assigned' = [assigned EXCEPT ![r].A = @ \cup RowCells(A[r], process_finish_n(r))]
    /\ mail' = [mail EXCEPT ![<<r + 1, r>>] = Tail(@)]
    /\ lpc' = [lpc EXCEPT ![r] = IF r = 0 THEN "red" ELSE "p2Send"]
    /\ UNCHANGED <<fire, linput, liter, error, Anew, lcoll, lcbuf>>

(* laplace.c, second exchange: MPI_Send of row process_start_n to rank-1 *)
LSendUp(r) ==
    /\ lpc[r] = "p2Send"
    /\ mail' = [mail EXCEPT ![<<r, r - 1>>] =
                    Append(@, [tag |-> 0, row |-> LRow(A[r], process_start_n(r))])]
    /\ lpc' = [lpc EXCEPT ![r] = "p2SendWait"]
    /\ UNCHANGED <<fire, linput, liter, error, A, Anew, assigned, lcoll, lcbuf>>

(* MPI_Allreduce(&error, &error, ..., MPI_MAX) is entered.  The call names  *)
(* one address as send and as receive buffer, which MPI forbids: a library *)
(* that checks its arguments raises an error, and errors are fatal.        *)
LReduce(r) ==
    /\ lpc[r] = "red"
    /\ IF alias_ok
       THEN /\ lcbuf' = [lcbuf EXCEPT ![lcoll[r] % 2][r] = error[r]]
            /\ lcoll' = [lcoll EXCEPT ![r] = @ + 1]
            /\ lpc' = [lpc EXCEPT ![r] = "redWait"]
       ELSE /\ UNCHANGED <<lcbuf, lcoll>>
            /\ lpc' = [lpc EXCEPT ![r] = "aborted"]
    /\ UNCHANGED <<fire, linput, liter, error, A, Anew, assigned, mail>>

(* MPI_Allreduce returns; iter++ *)
LReduceExit(r) ==
    /\ lpc[r] = "redWait"
    /\ LAllEntered(r)
    /\ error' = [error EXCEPT ![r] = SetMax({lcbuf[LSlot(r)][v] : v \in LRanks})]
    /\ liter' = [liter EXCEPT ![r] = @ + 1]
    /\ lpc' = [lpc EXCEPT ![r] = "loop"]
    /\ UNCHANGED <<fire, linput, A, Anew, assigned, mail, lcoll, lcbuf>>

(* the loop ends; MPI_Finalize *)
LFinalize(r) ==
    /\ lpc[r] = "loop"
    /\ ~(error[r] > tol /\ liter[r] < iter_max)
    /\ lpc' = [lpc EXCEPT ![r] = "done"]
    /\ UNCHANGED <<fire, linput, liter, error, A, Anew, assigned, mail, lcoll, lcbuf>>

LStep(r) ==
    \/ LCompute(r)
    \/ LSequential(r)
    \/ LExchangeUp(r)
    \/ LExchangeUpRecv(r)
    \/ LExchangeDown(r)
    \/ LExchangeDownRecv(r)
    \/ LSendDown(r)
    \/ LRecvFromAbove(r)
    \/ LSendReturn(r)
    \/ LRecvFromBelow(r)
    \/ LSendUp(r)
    \/ LReduce(r)
    \/ LReduceExit(r)
    \/ LFinalize(r)

LaplaceNext == \E r \in LRanks : LStep(r)

LaplaceSpec == LaplaceInit /\ [][LaplaceNext]_vars

(* the rows of the matrix the stencil loop of rank r updates, and reads *)
UpdatedRows(r) == {GlobalRow(r, i) : i \in LoopRows(r)}

ReadRows(r) == UNION {{GlobalRow(r, i - 1), GlobalRow(r, i), GlobalRow(r, i + 1)} : i \in LoopRows(r)}

RowsDisjointCover ==
    /\ \A r, v \in LRanks : r # v => UpdatedRows(r) \cap UpdatedRows(v) = {}
    /\ UNION {UpdatedRows(r) : r \in LRanks} = 1 .. (N - 2)
    /\ \A r \in LRanks : ReadRows(r) \subseteq 0 .. (N - 1)

(* a run of one of the MPI programs with a process count that divides N *)
DividedRun == variant \in {"sendrecv", "blocking"} /\ N % nprocs = 0

(* the stencil loop of rank r leaves rows 0 and N-1 of the matrix as they  *)
(* were in the buffer it writes, and reads inside its allocation           *)
LoopInFrame(r) ==
    /\ \A c \in DOMAIN Anew[r] :
            GlobalRow(r, c \div M) \in {0, N - 1} => A'[r][c] = Anew[r][c]
    /\ \A i \in LoopRows(r), j \in 1 .. (M - 2) :
            /\ ((i - 1) * M + j) \in DOMAIN A[r]
            /\ ((i + 1) * M + j) \in DOMAIN A[r]

(* C30: in both MPI programs and for every process count that divides N,   *)
(* whenever a rank runs its stencil loop the rows updated by the ranks are *)
(* pairwise disjoint, together they are the rows 1..N-2, no row outside    *)
(* 0..N-1 is read, and the loop leaves rows 0 and N-1 unchanged.           *)
C30_LaplaceRows ==
    [][\A r \in LRanks : (DividedRun /\ lpc[r] = "loop" /\ lpc'[r] \notin {"loop", "done"}) =>
            (RowsDisjointCover /\ LoopInFrame(r))]_vars

(* what holds: the same for two and more processes *)
C30_TwoOrMore ==
    [][\A r \in LRanks :
        (DividedRun /\ nprocs >= 2 /\ lpc[r] = "loop" /\ lpc'[r] \notin {"loop", "done"}) =>
            (RowsDisjointCover /\ LoopInFrame(r))]_vars

(* some rank of a run of several processes has updated an inner row *)
C30_TwoOrMoreWitness ==
    \E r \in LRanks :
        /\ DividedRun /\ nprocs >= 2 /\ liter[r] = 1 /\ lpc[r] = "loop" /\ UpdatedRows(r) # {}
        /\ \E c \in DOMAIN A[r] : c % M \in 1 .. (M - 2) /\ A[r][c] > 0

(* no step of rank r is possible *)
LBlocked(r) == ~ENABLED LStep(r)

(* the ranks agree: between two reductions they hold the same error, and  *)
(* those that left the loop left it after the same iteration              *)
LAgree ==
    /\ \A r, v \in LRanks :
            (lpc[r] = "loop" /\ lpc[v] = "loop" /\ liter[r] = liter[v]) => error[r] = error[v]
    /\ \A r, v \in LRanks : (lpc[r] = "done" /\ lpc[v] = "done") => liter[r] = liter[v]

(* no rank was stopped by an error, and when no rank can take a step every *)
(* rank has reached MPI_Finalize and no row is left in flight              *)
LRunsToFinalize ==
    /\ \A r \in LRanks : lpc[r] \notin {"aborted", "crashed"}
    /\ (\A r \in LRanks : LBlocked(r)) =>
            /\ \A r \in LRanks : lpc[r] = "done"
            /\ \A k \in DOMAIN mail : mail[k] = <<>>

(* C31: the program with MPI_Send and MPI_Recv, run by two or more         *)
(* processes: no rank is stopped by an error of a send, a receive or the   *)
(* reduction, no rank stays blocked in an exchange, the ranks hold the     *)
(* same reduced error and leave the loop after the same iteration, and     *)
(* every rank reaches MPI_Finalize.                                        *)
C31_BlockingCompletes ==
    (variant = "blocking" /\ nprocs >= 2) => (LRunsToFinalize /\ LAgree)

(* what holds: the same when the library accepts the aliased buffers of    *)
(* MPI_Allreduce and there are no more processes than rows                 *)
C31_WithinRows ==
    (variant = "blocking" /\ nprocs >= 2 /\ nprocs <= N /\ alias_ok) =>
        (LRunsToFinalize /\ LAgree)

(* what holds: with more processes than rows only the write before the     *)
(* allocation can stop a rank                                              *)
C31_MoreThanRows ==
    (variant = "blocking" /\ nprocs > N /\ alias_ok
        /\ \A r \in LRanks : lpc[r] # "crashed") =>
        (LRunsToFinalize /\ LAgree)

(* ---- the sequential program of laplace.c as a function of its input ---- *)
(* the matrices after the initialisation; j is what the inner cells of     *)
(* Anew, which are never assigned, happen to hold                          *)
SeqInitA ==
    [c \in 0 .. (N * M - 1) |->
        IF c % M = 0 THEN Sine(c \div M)
        ELSE IF c % M = M - 1 THEN ExpPi(Sine(c \div M))
        ELSE 0]

SeqInitAnew(j) ==
    [c \in 0 .. (N * M - 1) |->
        IF c % M = 0 THEN Sine(c \div M)
        ELSE IF c % M = M - 1 THEN ExpPi(Sine(c \div M))
        ELSE j]

SeqCells == {i * M + c : i \in 1 .. (N - 2), c \in 1 .. (M - 2)}

(* one pass of the loop: the stencil, the error, the swap, iter++ *)
SeqPass(st) ==
    LET anew == [c \in DOMAIN st.Anew |->
                    IF c \in SeqCells THEN Stencil(st.A, c \div M, c % M) ELSE st.Anew[c]]
        errs == {Abs(anew[c] - st.A[c]) : c \in SeqCells}
    IN [A |-> anew, Anew |-> st.A, error |-> IF errs = {} THEN 0 ELSE SetMax(errs)]

(* the state after k passes *)
RECURSIVE SeqState(_, _)
SeqState(k, j) ==
    IF k = 0 THEN [A |-> SeqInitA, Anew |-> SeqInitAnew(j), error |-> Scale]
    ELSE SeqPass(SeqState(k - 1, j))

(* the cell of the whole matrix that cell c of the slice of rank r stands for *)
GlobalCell(r, c) == GlobalRow(r, c \div M) * M + (c % M)

(* rank r holds in cells S of A what the sequential program holds there    *)
(* after k passes, its unassigned memory holding j                         *)
SameAsSequential(r, S, k, j) ==
    \A c \in S : A[r][c] = SeqState(k, j).A[GlobalCell(r, c)]

(* after both exchanges the halo rows of rank r are the rows its           *)
(* neighbours computed in this iteration                                   *)
HalosFresh(r) ==
    /\ r > 0 => LRow(A[r], 0) = LRow(A[r - 1], process_n(r - 1) - 2)
    /\ r < nprocs - 1 => LRow(A[r], process_n(r) - 1) = LRow(A[r + 1], 1)

(* the claim for unassigned memory that holds j *)
SendrecvAsSequential(j) ==
    \A r \in LRanks :
        /\ lpc[r] = "red" => HalosFresh(r)
        /\ (lpc[r] = "loop" /\ error[r] > tol /\ liter[r] < iter_max) =>
                SameAsSequential(r, StencilReadCells(r) \cup LoopCells(r), liter[r], j)
        /\ (lpc[r] = "loop" /\ liter[r] >= 1) => error[r] = SeqState(liter[r], j).error

(* C32: the program with MPI_Sendrecv, run by two or more processes whose  *)
(* number divides n: after the exchanges of an iteration the halo rows of  *)
(* a rank are the rows its neighbours computed in that iteration; every    *)
(* stencil update of every iteration reads the four values the sequential  *)
(* program reads there, and the reduced error is the sequential error.     *)
C32_SendrecvAsSequential ==
    (variant = "sendrecv" /\ nprocs >= 2) => \A j \in JunkValues : SendrecvAsSequential(j)

(* what holds: the same against a sequential run whose unassigned cells    *)
(* hold zero, and the halo rows in every case                              *)
C32_ZeroedSequential ==
    (variant = "sendrecv" /\ nprocs >= 2) => SendrecvAsSequential(0)

(* a rank has entered its second iteration with rows of its own to update, *)
(* a halo row received from each neighbour it has                          *)
C32_ZeroedWitness ==
    \E r \in LRanks :
        /\ variant = "sendrecv" /\ nprocs >= 3 /\ r > 0 /\ r < nprocs - 1
        /\ liter[r] = 1 /\ lpc[r] = "red" /\ LoopCells(r) # {}
        /\ \E c \in RowCells(A[r], 0) : c % M \in 1 .. (M - 2) /\ A[r][c] > 0

(* rank r runs its stencil loop in this step *)
RunsStencil(r) ==
    /\ lpc[r] = "loop"
    /\ lpc'[r] \notin {"loop", "done"} \/ liter'[r] = liter[r] + 1

(* the cells the stencil loop of rank r reads from A before any assignment *)
UnassignedReads(r) == StencilReadCells(r) \ assigned[r].A

(* the sequential program, or an MPI program run by two or more processes  *)
(* and no more processes than rows: every read stays inside the allocation *)
ReadsInside == variant = "sequential" \/ (nprocs >= 2 /\ nprocs <= N)

(* C33: in the sequential program and in both MPI programs, whenever a     *)
(* stencil loop runs, every cell of A it reads (the cells of rows 0 and    *)
(* n-1 after a swap included) was assigned before: by the initialisation,  *)
(* by a stencil update or by the receive of a halo row.  Stated for the    *)
(* runs whose reads stay inside the allocation.                            *)
C33_ReadsAssigned ==
    [][\A r \in LRanks : (ReadsInside /\ RunsStencil(r)) => UnassignedReads(r) = {}]_vars

(* what holds: the first stencil loop of a run of two or more processes,   *)
(* none more than rows, and of the sequential program reads assigned cells *)
C33_FirstIteration ==
    [][\A r \in LRanks :
        (ReadsInside /\ RunsStencil(r) /\ liter[r] = 0) => UnassignedReads(r) = {}]_vars

(* what holds: the program with MPI_Sendrecv run by two or more processes  *)
(* reads assigned cells in every iteration                                 *)
C33_Sendrecv ==
    [][\A r \in LRanks :
        (RunsStencil(r) /\ variant = "sendrecv" /\ nprocs >= 2) =>
            UnassignedReads(r) = {}]_vars

(* what holds: the programs of laplace.c, with no more processes than rows *)
(* and two or more if run under MPI, read unassigned cells in rows 0 and   *)
(* n-1 only; the halo rows were received                                   *)
C33_OnlyBorderRows ==
    [][\A r \in LRanks :
        (ReadsInside /\ RunsStencil(r) /\ variant # "sendrecv") =>
            \A c \in UnassignedReads(r) : c \div M \in {0, N - 1}]_vars

(* the sequential program as an action and as a function agree *)
SequentialAgrees ==
    variant = "sequential" =>
        /\ A[0] = SeqState(liter[0], junk).A
        /\ Anew[0] = SeqState(liter[0], junk).Anew
        /\ error[0] = SeqState(liter[0], junk).error

====
